---- MODULE Spec2Model ----
(***************************************************************************)
(* Model of the sysprop code generator: the schema validator of            *)
(* Common.cpp (ParseProps / ValidateProps / ValidateProp and the           *)
(* identifier checks), the drivers GenerateCppFiles (CppGen.cpp),          *)
(* GenerateJavaLibrary (JavaGen.cpp) and GenerateRustLibrary (RustGen.cpp), *)
(* and the getters of the code they generate, run on a property store.     *)
(*                                                                         *)
(* A std::string is a tuple of one-character strings.  An error message is *)
(* a record [msg, arg, prop]: msg is the literal text of the message with  *)
(* %1 and %2 standing for the two values the code concatenates into it.    *)
(***************************************************************************)
EXTENDS Integers, Sequences, FiniteSets, TLC

VARIABLES
    pc,             \* position of the run: "start", then the step that comes next, or "done"
    target,         \* "cpp" (GenerateCppFiles), "java" (GenerateJavaLibrary), "rust" (GenerateRustLibrary)
    file,           \* the input file: [readable, parses, schema]
    props,          \* sysprop::Properties props, the object ParseProps fills
    err,            \* std::string* err
    ret,            \* return value of the function: "none" while it runs, "true", "false"
    first_result,   \* header_result / java_result / the Rust module
    second_result,  \* source_result / jni_result
    dirs,           \* directories that exist in the file system
    files,          \* regular files that exist: a set of [path, content]
    denied,         \* directories in which mkdir() and open(O_CREAT) fail
    args,           \* arguments of the call: [basename, first_dir, second_dir]
    fs0,            \* history: the directories and files when the call starts
    trace,          \* history: the steps that have run, in order
    scope,          \* sysprop::Scope scope, the argument of GenerateRustLibrary
    store,          \* the property store the generated code runs on: a set of [key, value]
    broken,         \* keys whose read fails (system_properties::read returns Err)
    out,            \* what the last call of a generated accessor returned
    reads           \* history: the keys the last call of an accessor looked up, in order

runtime == <<store, broken, out, reads>>

vars == <<pc, target, file, props, err, ret, first_result, second_result,
          dirs, files, denied, args, fs0, trace, scope, store, broken, out, reads>>

-----------------------------------------------------------------------------
(* Bounds *)

MaxLen == 4         \* longest property name drawn exhaustively
MaxEnumLen == 5     \* longest enum_values string drawn exhaustively
MaxProps == 2       \* most properties in a schema of the validation pool
MaxListLen == 2     \* longest list passed to a generated setter

-----------------------------------------------------------------------------
(* Characters and strings *)

Alpha == {"a","b","c","d","e","f","g","h","i","j","k","l","m",
          "n","o","p","q","r","s","t","u","v","w","x","y","z",
          "A","B","C","D","E","F","G","H","I","J","K","L","M",
          "N","O","P","Q","R","S","T","U","V","W","X","Y","Z"}

Digit == {"0","1","2","3","4","5","6","7","8","9"}

\* std::isalpha / std::isdigit in the "C" locale
isalpha(c) == c \in Alpha
isdigit(c) == c \in Digit

\* strings of length 0..n over the alphabet A
StringsUpTo(A, n) == UNION {[1..k -> A] : k \in 0..n}

\* index of the first occurrence of character d in s at or after position
\* from, 0 when there is none (std::string::find_first_of)
FindFirstOf(s, d, from) ==
    LET hits == {i \in from..Len(s) : s[i] = d}
    IN IF hits = {} THEN 0 ELSE CHOOSE i \in hits : \A j \in hits : i <= j

\* index of the last occurrence of d in s, 0 when there is none (rfind)
RFind(s, d) ==
    LET hits == {i \in 1..Len(s) : s[i] = d}
    IN IF hits = {} THEN 0 ELSE CHOOSE i \in hits : \A j \in hits : i >= j

\* a split that drops a trailing empty element, and so yields no element for
\* the empty string
RECURSIVE Split_DropTrailingEmpty(_, _)
Split_DropTrailingEmpty(s, d) ==
    LET found == FindFirstOf(s, d, 1)
    IN IF s = <<>> THEN <<>>
       ELSE IF found = 0 THEN <<s>>
       ELSE <<SubSeq(s, 1, found - 1)>>
            \o Split_DropTrailingEmpty(SubSeq(s, found + 1, Len(s)), d)

\* android::base::Split(s, delimiter): always at least one element, empty
\* elements are kept
RECURSIVE Split(_, _)
Split(s, d) ==
    LET found == FindFirstOf(s, d, 1)
    IN IF found = 0
       THEN <<s>>
       ELSE <<SubSeq(s, 1, found - 1)>> \o Split(SubSeq(s, found + 1, Len(s)), d)

\* android::base::StartsWith
StartsWith(s, prefix) ==
    Len(s) >= Len(prefix) /\ SubSeq(s, 1, Len(prefix)) = prefix

\* the name left as it is
PropNameToIdentifier_Identity(name) == name

\* std::regex_replace(name, kRegexDot, "_")
PropNameToIdentifier(name) ==
    [i \in 1..Len(name) |-> IF name[i] = "." THEN "_" ELSE name[i]]

kVendorDot == <<"v","e","n","d","o","r",".">>
kOdmDot == <<"o","d","m",".">>
kPlatformModule == <<"a","n","d","r","o","i","d",".","o","s",".",
                     "P","l","a","t","f","o","r","m",
                     "P","r","o","p","e","r","t","i","e","s">>

-----------------------------------------------------------------------------
(* Error messages *)

NoArg == <<>>
Msg(m, a, p) == [msg |-> m, arg |-> a, prop |-> p]
EmptyErr == Msg("", NoArg, NoArg)

ErrInvalidPropName(name) == Msg("Invalid prop name \"%1\"", name, NoArg)
ErrEnumEmpty(pname) == Msg("Enum values are empty for prop \"%2\"", NoArg, pname)
ErrInvalidEnumValue(v, pname) ==
    Msg("Invalid enum value \"%1\" for prop \"%2\"", v, pname)
ErrDuplicatedEnumValue(v, pname) ==
    Msg("Duplicated enum value \"%1\" for prop \"%2\"", v, pname)
ErrNamespace(pname) ==
    Msg("Prop \"%2\" owned by platform cannot have vendor. or odm. namespace",
        NoArg, pname)
ErrInvalidModuleName(m) == Msg("Invalid module name \"%1\"", m, NoArg)
ErrInvalidNameInModule(n) == Msg("Invalid name \"%1\" in module", n, NoArg)
ErrInvalidPrefix(p) == Msg("Invalid prefix \"%1\"", p, NoArg)
ErrNoProperty == Msg("There is no defined property", NoArg, NoArg)
ErrDuplicatedPropName(name) == Msg("Duplicated prop name \"%1\"", name, NoArg)
ErrPlatformModule ==
    Msg("Platform-defined properties should have \"android.os.PlatformProperties\" as module name",
        NoArg, NoArg)
ErrVendorOdmModule ==
    Msg("Vendor or Odm cannot use \"android.os.PlatformProperties\" as module name",
        NoArg, NoArg)
ErrReadingFile == Msg("Error reading file %1: %2", NoArg, NoArg)
ErrParsingFile == Msg("Error parsing file %1", NoArg, NoArg)

-----------------------------------------------------------------------------
(* Identifier checks, Common.cpp *)

\* the first character checked like the later ones: a digit may lead
IsCorrectIdentifier_AnyFirst(name) ==
    IF name = <<>> THEN FALSE
    ELSE \A i \in 1..Len(name) :
            (isalpha(name[i]) \/ name[i] = "_") \/ isdigit(name[i])

IsCorrectIdentifier(name) ==
    IF name = <<>> THEN FALSE
    ELSE IF ~isalpha(name[1]) /\ name[1] # "_" THEN FALSE
    ELSE \A i \in 2..Len(name) :
            (isalpha(name[i]) \/ name[i] = "_") \/ isdigit(name[i])

IsCorrectPropertyName(name) ==
    IF name = <<>> THEN FALSE
    ELSE LET tokens == Split(name, ".")
         IN \A k \in 1..Len(tokens) : IsCorrectIdentifier(tokens[k])

\* the loop runs to its end and keeps the last failure
First_Last(S) == CHOOSE i \in S : \A j \in S : i >= j

\* smallest element of a non-empty set of indices: the iteration at which a
\* for loop with an early return leaves
First(S) == CHOOSE i \in S : \A j \in S : i <= j

Ok == [ok |-> TRUE, err |-> EmptyErr]
Fail(e) == [ok |-> FALSE, err |-> e]

\* EnumList forgotten
IsEnumType_OnlyEnum(t) == t = "Enum"

IsEnumType(t) == t \in {"Enum", "EnumList"}

\* the key built as the generators build it, with a '.' after the prefix
FullName_Dotted(ps, prop) ==
    IF ps.prefix # <<>> /\ ps.prefix[Len(ps.prefix)] # "."
    THEN ps.prefix \o <<".">> \o prop.name
    ELSE ps.prefix \o prop.name

\* std::string full_name = props.prefix() + prop.name();
FullName(ps, prop) == ps.prefix \o prop.name

\* validity and duplicates checked in one pass over the enum values
ValidateProp_OneLoop(ps, prop) ==
    IF ~IsCorrectPropertyName(prop.name)
    THEN Fail(ErrInvalidPropName(prop.name))
    ELSE
    LET names == Split(prop.enum_values, "|")
        invalid == {i \in 1..Len(names) : ~IsCorrectIdentifier(names[i])}
        repeated == {i \in 1..Len(names) : \E j \in 1..(i-1) : names[j] = names[i]}
        full_name == FullName(ps, prop)
    IN
    IF IsEnumType(prop.type) /\ Len(names) = 0
    THEN Fail(ErrEnumEmpty(prop.name))
    ELSE IF IsEnumType(prop.type) /\ invalid \cup repeated # {}
    THEN (IF First(invalid \cup repeated) \in invalid
          THEN Fail(ErrInvalidEnumValue(names[First(invalid \cup repeated)], prop.name))
          ELSE Fail(ErrDuplicatedEnumValue(names[First(invalid \cup repeated)], prop.name)))
    ELSE IF ps.owner = "Platform"
            /\ (StartsWith(full_name, kVendorDot) \/ StartsWith(full_name, kOdmDot))
    THEN Fail(ErrNamespace(prop.name))
    ELSE Ok

ValidateProp(ps, prop) ==
    IF ~IsCorrectPropertyName(prop.name)
    THEN Fail(ErrInvalidPropName(prop.name))
    ELSE
    LET names == Split(prop.enum_values, "|")
        invalid == {i \in 1..Len(names) : ~IsCorrectIdentifier(names[i])}
        \* name_set.insert(name).second is false: the value was inserted before
        repeated == {i \in 1..Len(names) : \E j \in 1..(i-1) : names[j] = names[i]}
        full_name == FullName(ps, prop)
    IN
    IF IsEnumType(prop.type) /\ Len(names) = 0
    THEN Fail(ErrEnumEmpty(prop.name))
    ELSE IF IsEnumType(prop.type) /\ invalid # {}
    THEN Fail(ErrInvalidEnumValue(names[First(invalid)], prop.name))
    ELSE IF IsEnumType(prop.type) /\ repeated # {}
    THEN Fail(ErrDuplicatedEnumValue(names[First(repeated)], prop.name))
    ELSE IF ps.owner = "Platform"
            /\ (StartsWith(full_name, kVendorDot) \/ StartsWith(full_name, kOdmDot))
    THEN Fail(ErrNamespace(prop.name))
    ELSE Ok

\* the module rule checked for owner Platform only
ValidateProps_NoVendorRule(ps) ==
    LET names == Split(ps.module, ".")
        badseg == {i \in 1..Len(names) : ~IsCorrectIdentifier(names[i])}
        badprop == {i \in 1..Len(ps.prop) : ~ValidateProp(ps, ps.prop[i]).ok}
        dup == {i \in 1..Len(ps.prop) :
                  \E j \in 1..(i-1) :
                     PropNameToIdentifier(ps.prop[j].name)
                       = PropNameToIdentifier(ps.prop[i].name)}
    IN
    IF Len(names) <= 1 THEN Fail(ErrInvalidModuleName(ps.module))
    ELSE IF badseg # {} THEN Fail(ErrInvalidNameInModule(names[First(badseg)]))
    ELSE IF ps.prefix # <<>> /\ ~IsCorrectPropertyName(ps.prefix)
    THEN Fail(ErrInvalidPrefix(ps.prefix))
    ELSE IF Len(ps.prop) = 0 THEN Fail(ErrNoProperty)
    ELSE IF badprop # {} THEN ValidateProp(ps, ps.prop[First(badprop)])
    ELSE IF dup # {} THEN Fail(ErrDuplicatedPropName(ps.prop[First(dup)].name))
    ELSE IF ps.owner = "Platform" /\ ps.module # kPlatformModule
    THEN Fail(ErrPlatformModule)
    ELSE Ok

ValidateProps(ps) ==
    LET names == Split(ps.module, ".")
        badseg == {i \in 1..Len(names) : ~IsCorrectIdentifier(names[i])}
        badprop == {i \in 1..Len(ps.prop) : ~ValidateProp(ps, ps.prop[i]).ok}
        \* prop_names.insert(...).second is false: the identifier was inserted before
        dup == {i \in 1..Len(ps.prop) :
                  \E j \in 1..(i-1) :
                     PropNameToIdentifier(ps.prop[j].name)
                       = PropNameToIdentifier(ps.prop[i].name)}
    IN
    IF Len(names) <= 1 THEN Fail(ErrInvalidModuleName(ps.module))
    ELSE IF badseg # {} THEN Fail(ErrInvalidNameInModule(names[First(badseg)]))
    ELSE IF ps.prefix # <<>> /\ ~IsCorrectPropertyName(ps.prefix)
    THEN Fail(ErrInvalidPrefix(ps.prefix))
    ELSE IF Len(ps.prop) = 0 THEN Fail(ErrNoProperty)
    ELSE IF badprop # {} THEN ValidateProp(ps, ps.prop[First(badprop)])
    ELSE IF dup # {} THEN Fail(ErrDuplicatedPropName(ps.prop[First(dup)].name))
    ELSE IF ps.owner = "Platform"
    THEN (IF ps.module # kPlatformModule THEN Fail(ErrPlatformModule) ELSE Ok)
    ELSE (IF ps.module = kPlatformModule THEN Fail(ErrVendorOdmModule) ELSE Ok)

-----------------------------------------------------------------------------
(* The schema object and ParseProps, Common.cpp *)

Prop(n, t, ev, has_ro, ro, sc) ==
    [name |-> n, type |-> t, enum_values |-> ev,
     has_readonly |-> has_ro, readonly |-> ro, scope |-> sc]

Schema(o, m, p, ps) == [owner |-> o, module |-> m, prefix |-> p, prop |-> ps]

\* a default-constructed sysprop::Properties
EmptyProps == Schema("Platform", <<>>, <<>>, <<>>)

\* readonly forced to true, whether it was set or not
FillDefault_Always(prop) == [prop EXCEPT !.has_readonly = TRUE, !.readonly = TRUE]

\* if (!prop.has_readonly()) prop.set_readonly(true);
FillDefault(prop) ==
    IF ~prop.has_readonly
    THEN [prop EXCEPT !.has_readonly = TRUE, !.readonly = TRUE]
    ELSE prop

\* ParseProps(input_file_path, &props, &err): the values of the return, of
\* *props and of *err when it returns.  A text that fails to parse leaves in
\* *props what was parsed before the error.
ParsePropsResult(f, ps, e) ==
    IF ~f.readable
    THEN [ok |-> FALSE, props |-> ps, err |-> ErrReadingFile]
    ELSE IF ~f.parses
    THEN [ok |-> FALSE, props |-> f.schema, err |-> ErrParsingFile]
    ELSE LET r == ValidateProps(f.schema)
         IN IF ~r.ok
            THEN [ok |-> FALSE, props |-> f.schema, err |-> r.err]
            ELSE [ok |-> TRUE,
                  props |-> [f.schema EXCEPT !.prop =
                               [i \in 1..Len(f.schema.prop) |->
                                   FillDefault(f.schema.prop[i])]],
                  err |-> e]

\* A direct call of ParseProps, as the tests make it.
ParseProps ==
    /\ pc = "start"
    /\ target = "parse"
    /\ LET r == ParsePropsResult(file, props, err)
       IN /\ props' = r.props
          /\ err' = r.err
          /\ ret' = IF r.ok THEN "true" ELSE "false"
    /\ pc' = "done"
    /\ trace' = Append(trace, "parse")
    /\ UNCHANGED <<target, file, first_result, second_result, dirs, files, denied, args, fs0, scope, runtime>>

-----------------------------------------------------------------------------
(* The file system: CreateDirectories and IsDirectory of Common.cpp, and     *)
(* android::base::WriteStringToFile.  A path is the tuple of its components, *)
(* <<>> is the working directory.                                            *)

Parent(path) == SubSeq(path, 1, Len(path) - 1)

IsDirectoryIn(ds, path) == path = <<>> \/ path \in ds

IsDirectory(path) == IsDirectoryIn(dirs, path)

\* the paths of the regular files
FilePaths == {f.path : f \in files}

\* stat(path) == 0
ExistsIn(ds, path) == IsDirectoryIn(ds, path) \/ path \in FilePaths

\* mkdir(path, 0755) == 0
MkdirOk(ds, path) ==
    /\ ~ExistsIn(ds, path)
    /\ IsDirectoryIn(ds, Parent(path))
    /\ Parent(path) \notin denied

\* CreateDirectories(path) on the directories ds: its return value and the
\* directories afterwards
RECURSIVE CreateDirectories(_, _)
CreateDirectories(ds, path) ==
    IF ExistsIn(ds, path) THEN [ok |-> FALSE, dirs |-> ds]
    ELSE
    LET has_parent == Len(path) > 1
        up == IF has_parent /\ ~IsDirectoryIn(ds, Parent(path))
              THEN CreateDirectories(ds, Parent(path))
              ELSE [ok |-> TRUE, dirs |-> ds]
    IN IF ~up.ok THEN [ok |-> FALSE, dirs |-> up.dirs]
       ELSE IF MkdirOk(up.dirs, path)
       THEN [ok |-> TRUE, dirs |-> up.dirs \cup {path}]
       ELSE [ok |-> IsDirectoryIn(up.dirs, path), dirs |-> up.dirs]

\* open(path, O_WRONLY | O_CREAT | O_TRUNC) succeeds
OpenOk(path) ==
    /\ path \notin dirs
    /\ IsDirectory(Parent(path))
    /\ (path \in FilePaths \/ Parent(path) \notin denied)

\* the files after WriteStringToFile(content, path); io_ok is whether the
\* write() calls succeed.  A failed write removes the file.
WriteStringToFile(content, path, io_ok) ==
    IF ~OpenOk(path) THEN [ok |-> FALSE, files |-> files]
    ELSE IF io_ok
    THEN [ok |-> TRUE,
          files |-> {f \in files : f.path # path}
                       \cup {[path |-> path, content |-> content]}]
    ELSE [ok |-> FALSE, files |-> {f \in files : f.path # path}]

-----------------------------------------------------------------------------
(* Generated text.  An artifact is the sequence of the items the generator  *)
(* writes, in the order it writes them; the fixed boilerplate is left out.  *)

Txt(tmpl, a) == [tmpl |-> tmpl, arg |-> a]
NoType == Txt("", <<>>)

Item(k, id, ty, key, vals) ==
    [kind |-> k, id |-> id, type |-> ty, key |-> key, values |-> vals]

RECURSIVE Concat(_)
Concat(ss) == IF ss = <<>> THEN <<>> ELSE Head(ss) \o Concat(Tail(ss))

\* the items of every property, properties in declaration order
ForEachProp(ps, F(_)) == Concat([i \in 1..Len(ps.prop) |-> F(ps.prop[i])])

kRo == <<"r","o",".">>
kValuesSuffix == <<"_","v","a","l","u","e","s">>

\* the two parts joined as they are
KeyPrefix_Bare(ps, prop) ==
    (IF prop.readonly THEN kRo ELSE <<>>) \o ps.prefix

\* std::string prefix = (prop.readonly() ? "ro." : "") + props.prefix();
\* if (!prefix.empty() && prefix.back() != '.') prefix.push_back('.');
KeyPrefix(ps, prop) ==
    LET prefix == (IF prop.readonly THEN kRo ELSE <<>>) \o ps.prefix
    IN IF prefix # <<>> /\ prefix[Len(prefix)] # "."
       THEN Append(prefix, ".")
       ELSE prefix

(* CppGen.cpp *)

\* the enum class named like the accessor
GetCppEnumName_Bare(prop) == PropNameToIdentifier(prop.name)

GetCppEnumName(prop) == PropNameToIdentifier(prop.name) \o kValuesSuffix

GetCppPropTypeName(prop) ==
    CASE prop.type = "Boolean" -> Txt("bool", <<>>)
      [] prop.type = "Integer" -> Txt("std::int32_t", <<>>)
      [] prop.type = "Long" -> Txt("std::int64_t", <<>>)
      [] prop.type = "Double" -> Txt("double", <<>>)
      [] prop.type = "String" -> Txt("std::string", <<>>)
      [] prop.type = "Enum" -> Txt("%1", GetCppEnumName(prop))
      [] prop.type = "BooleanList" -> Txt("std::vector<bool>", <<>>)
      [] prop.type = "IntegerList" -> Txt("std::vector<std::int32_t>", <<>>)
      [] prop.type = "LongList" -> Txt("std::vector<std::int64_t>", <<>>)
      [] prop.type = "DoubleList" -> Txt("std::vector<double>", <<>>)
      [] prop.type = "StringList" -> Txt("std::vector<std::string>", <<>>)
      [] prop.type = "EnumList" -> Txt("std::vector<%1>", GetCppEnumName(prop))
      [] OTHER -> Txt("__builtin_unreachable()", <<>>)

GetHeaderIncludeGuardName(ps) == PropNameToIdentifier(ps.module)

GetCppNamespace(ps) == Split(ps.module, ".")

HeaderProp(prop) ==
    LET prop_id == PropNameToIdentifier(prop.name)
        prop_type == GetCppPropTypeName(prop)
    IN (IF IsEnumType(prop.type)
        THEN <<Item("enum class", GetCppEnumName(prop), NoType, <<>>,
                    Split(prop.enum_values, "|"))>>
        ELSE <<>>)
       \o <<Item("getter", prop_id, prop_type, <<>>, <<>>)>>
       \o (IF ~prop.readonly
           THEN <<Item("setter", prop_id, prop_type, <<>>, <<>>)>>
           ELSE <<>>)

\* a header that is written only where no output exists yet
GenerateHeader_OnlyOnce(ps) ==
    IF files # {} THEN <<>>
    ELSE <<Item("#ifndef", GetHeaderIncludeGuardName(ps), NoType, <<>>, <<>>),
           Item("namespace", <<>>, NoType, <<>>, GetCppNamespace(ps))>>
         \o ForEachProp(ps, HeaderProp)

GenerateHeader(ps) ==
    <<Item("#ifndef", GetHeaderIncludeGuardName(ps), NoType, <<>>, <<>>),
      Item("namespace", <<>>, NoType, <<>>, GetCppNamespace(ps))>>
    \o ForEachProp(ps, HeaderProp)

SourceEnum(ps, prop) ==
    LET prop_id == PropNameToIdentifier(prop.name)
        enum_name == GetCppEnumName(prop)
    IN IF ~IsEnumType(prop.type) THEN <<>>
       ELSE <<Item("_list", prop_id, Txt("%1", enum_name), <<>>,
                   Split(prop.enum_values, "|")),
              Item("DoParse", prop_id, Txt("%1", enum_name), <<>>, <<>>)>>
            \o (IF ~prop.readonly
                THEN <<Item("FormatValue", prop_id, Txt("%1", enum_name),
                            KeyPrefix(ps, prop) \o prop_id, <<>>)>>
                ELSE <<>>)

\* the setter written for every property, read-only or not
SourceProp_SetterAlways(ps, prop) ==
    LET prop_id == PropNameToIdentifier(prop.name)
        prop_type == GetCppPropTypeName(prop)
        prefix == KeyPrefix(ps, prop)
    IN <<Item("getter", prop_id, prop_type, prefix \o prop.name, <<>>),
         Item("setter", prop_id, prop_type, prefix \o prop.name,
              <<IF prop.type = "String" THEN <<"v">> ELSE <<"F">>>>)>>

SourceProp(ps, prop) ==
    LET prop_id == PropNameToIdentifier(prop.name)
        prop_type == GetCppPropTypeName(prop)
        prefix == KeyPrefix(ps, prop)
    IN <<Item("getter", prop_id, prop_type, prefix \o prop.name, <<>>)>>
       \o (IF ~prop.readonly
           THEN <<Item("setter", prop_id, prop_type, prefix \o prop.name,
                       <<IF prop.type = "String" THEN <<"v">> ELSE <<"F">>>>)>>
           ELSE <<>>)

GenerateSource(ps) ==
    LET E(prop) == SourceEnum(ps, prop)
        P(prop) == SourceProp(ps, prop)
    IN ForEachProp(ps, E)
       \o <<Item("namespace", <<>>, NoType, <<>>, GetCppNamespace(ps))>>
       \o ForEachProp(ps, P)

(* JavaGen.cpp *)

GetJavaEnumTypeName(prop) == PropNameToIdentifier(prop.name) \o kValuesSuffix

GetJavaTypeName(prop) ==
    CASE prop.type = "Boolean" -> Txt("Boolean", <<>>)
      [] prop.type = "Integer" -> Txt("Integer", <<>>)
      [] prop.type = "Long" -> Txt("Long", <<>>)
      [] prop.type = "Double" -> Txt("Double", <<>>)
      [] prop.type = "String" -> Txt("String", <<>>)
      [] prop.type = "Enum" -> Txt("%1", GetJavaEnumTypeName(prop))
      [] prop.type = "BooleanList" -> Txt("List<Boolean>", <<>>)
      [] prop.type = "IntegerList" -> Txt("List<Integer>", <<>>)
      [] prop.type = "LongList" -> Txt("List<Long>", <<>>)
      [] prop.type = "DoubleList" -> Txt("List<Double>", <<>>)
      [] prop.type = "StringList" -> Txt("List<String>", <<>>)
      [] prop.type = "EnumList" -> Txt("List<%1>", GetJavaEnumTypeName(prop))
      [] OTHER -> Txt("__builtin_unreachable()", <<>>)

\* module.substr(0, module.rfind('.'))
GetJavaPackageName(ps) ==
    LET dot == RFind(ps.module, ".")
    IN IF dot = 0 THEN ps.module ELSE SubSeq(ps.module, 1, dot - 1)

\* module.substr(module.rfind('.') + 1)
GetJavaClassName(ps) ==
    SubSeq(ps.module, RFind(ps.module, ".") + 1, Len(ps.module))

\* what WriteJavaAnnotation(writer, prop) writes
WriteJavaAnnotation(prop) ==
    CASE prop.scope = "System" -> <<Item("@SystemApi", <<>>, NoType, <<>>, <<>>)>>
      [] prop.scope = "Internal" -> <<Item("/** @hide */", <<>>, NoType, <<>>, <<>>)>>
      [] OTHER -> <<>>

GetParsingExpression(prop) ==
    CASE prop.type = "Boolean" -> <<"tryParseBoolean">>
      [] prop.type = "Integer" -> <<"tryParseInteger">>
      [] prop.type = "Long" -> <<"tryParseLong">>
      [] prop.type = "Double" -> <<"tryParseDouble">>
      [] prop.type = "String" -> <<"tryParseString">>
      [] prop.type = "Enum" -> <<"tryParseEnum", GetJavaEnumTypeName(prop)>>
      [] prop.type = "EnumList" -> <<"tryParseEnumList", GetJavaEnumTypeName(prop)>>
      [] prop.type = "BooleanList" -> <<"tryParseList", "tryParseBoolean">>
      [] prop.type = "IntegerList" -> <<"tryParseList", "tryParseInteger">>
      [] prop.type = "LongList" -> <<"tryParseList", "tryParseLong">>
      [] prop.type = "DoubleList" -> <<"tryParseList", "tryParseDouble">>
      [] prop.type = "StringList" -> <<"tryParseList", "tryParseString">>
      [] OTHER -> <<"__builtin_unreachable()">>

JavaClassProp(prop) ==
    LET prop_id == PropNameToIdentifier(prop.name)
        prop_type == GetJavaTypeName(prop)
    IN (IF IsEnumType(prop.type)
        THEN WriteJavaAnnotation(prop)
             \o <<Item("enum", GetJavaEnumTypeName(prop), NoType, <<>>,
                       Split(prop.enum_values, "|"))>>
        ELSE <<>>)
       \o WriteJavaAnnotation(prop)
       \o <<Item("getter", prop_id, prop_type, <<>>, GetParsingExpression(prop)),
            Item("native_get", prop_id, NoType, <<>>, <<>>)>>
       \o (IF ~prop.readonly
           THEN WriteJavaAnnotation(prop)
                \o <<Item("setter", prop_id, prop_type, <<>>, <<>>),
                     Item("native_set", prop_id, NoType, <<>>, <<>>)>>
           ELSE <<>>)

GenerateJavaClass(ps) ==
    <<Item("package", GetJavaPackageName(ps), NoType, <<>>, <<>>),
      Item("class", GetJavaClassName(ps), NoType, <<>>, <<>>)>>
    \o ForEachProp(ps, JavaClassProp)

JniProp(ps, prop) ==
    LET prop_id == PropNameToIdentifier(prop.name)
        prefix == KeyPrefix(ps, prop)
    IN <<Item("_get", prop_id, NoType, prefix \o prop.name, <<>>)>>
       \o (IF ~prop.readonly
           THEN <<Item("_set", prop_id, NoType, prefix \o prop.name, <<>>)>>
           ELSE <<>>)

\* the table row of the getter alone
JniMethod_GetOnly(prop) ==
    <<Item("native_get", PropNameToIdentifier(prop.name), NoType, <<>>, <<>>)>>

JniMethod(prop) ==
    LET prop_id == PropNameToIdentifier(prop.name)
    IN <<Item("native_get", prop_id, NoType, <<>>, <<>>)>>
       \o (IF ~prop.readonly
           THEN <<Item("native_set", prop_id, NoType, <<>>, <<>>)>>
           ELSE <<>>)

GenerateJniLibrary(ps) ==
    LET F(prop) == JniProp(ps, prop)
    IN <<Item("kClassName", <<>>, NoType, <<>>, Split(ps.module, "."))>>
       \o ForEachProp(ps, F)
       \o <<Item("methods[]", <<>>, NoType, <<>>, <<>>)>>
       \o ForEachProp(ps, JniMethod)

(* RustGen.cpp.  GenerateRustSource reads the fields api_name, prop_name,     *)
(* access, scope, legacy_prop_name, deprecated and integer_as_bool of a       *)
(* property, and calls the name converters of Common.h.                       *)

RustProp(an, pn, t, ev, ac, sc, lg, dep) ==
    [api_name |-> an, prop_name |-> pn, type |-> t, enum_values |-> ev,
     access |-> ac, scope |-> sc, legacy_prop_name |-> lg, deprecated |-> dep,
     integer_as_bool |-> FALSE]

\* the numeric values of sysprop::Scope, which prop.scope() > scope compares
ScopeValue(sc) ==
    CASE sc = "Public" -> 0
      [] sc = "System" -> 1
      [] sc = "Internal" -> 2

toupper(c) ==
    LET lower == <<"a","b","c","d","e","f","g","h","i","j","k","l","m",
                   "n","o","p","q","r","s","t","u","v","w","x","y","z">>
        upper == <<"A","B","C","D","E","F","G","H","I","J","K","L","M",
                   "N","O","P","Q","R","S","T","U","V","W","X","Y","Z">>
    IN IF \E i \in 1..26 : lower[i] = c
       THEN upper[CHOOSE i \in 1..26 : lower[i] = c]
       ELSE c

tolower(c) ==
    LET lower == <<"a","b","c","d","e","f","g","h","i","j","k","l","m",
                   "n","o","p","q","r","s","t","u","v","w","x","y","z">>
        upper == <<"A","B","C","D","E","F","G","H","I","J","K","L","M",
                   "N","O","P","Q","R","S","T","U","V","W","X","Y","Z">>
    IN IF \E i \in 1..26 : upper[i] = c
       THEN lower[CHOOSE i \in 1..26 : upper[i] = c]
       ELSE c

\* '-' and '.' become '_'; a leading digit gets a '_' in front
ApiNameToIdentifier(name) ==
    (IF name # <<>> /\ isdigit(name[1]) THEN <<"_">> ELSE <<>>)
    \o [i \in 1..Len(name) |-> IF name[i] \in {"-", "."} THEN "_" ELSE name[i]]

\* a '_' goes between a lower-case letter or digit and an upper-case letter,
\* and before the last letter of an upper-case run that a lower-case letter
\* follows; then everything is lower-cased ("test_BOOLeaN" -> "test_boo_lea_n")
CamelCaseToSnakeCase(s) ==
    LET islower(c) == toupper(c) # c
        isupper(c) == tolower(c) # c
        Break(i) ==
            /\ i < Len(s)
            /\ \/ (islower(s[i]) \/ isdigit(s[i])) /\ isupper(s[i + 1])
               \/ /\ isupper(s[i]) /\ isupper(s[i + 1])
                  /\ i + 2 <= Len(s) /\ islower(s[i + 2])
        broken_up == Concat([i \in 1..Len(s) |->
                                IF Break(i) THEN <<s[i], "_">> ELSE <<s[i]>>])
    IN [i \in 1..Len(broken_up) |-> tolower(broken_up[i])]

\* the '_' go away and the letter after each, like the first one, is
\* upper-cased ("test_enum" -> "TestEnum", "a" -> "A", "D" -> "D")
SnakeCaseToCamelCase(s) ==
    Concat([i \in 1..Len(s) |->
              IF s[i] = "_" THEN <<>>
              ELSE IF i = 1 \/ s[i - 1] = "_" THEN <<toupper(s[i])>>
              ELSE <<s[i]>>])

GetRustEnumType(prop) ==
    SnakeCaseToCamelCase(ApiNameToIdentifier(prop.api_name))
    \o <<"V","a","l","u","e","s">>

GetRustReturnType(prop) ==
    CASE prop.type = "Boolean" -> Txt("bool", <<>>)
      [] prop.type = "Integer" -> Txt("i32", <<>>)
      [] prop.type = "UInt" -> Txt("u32", <<>>)
      [] prop.type = "Long" -> Txt("i64", <<>>)
      [] prop.type = "ULong" -> Txt("u64", <<>>)
      [] prop.type = "Double" -> Txt("f64", <<>>)
      [] prop.type = "String" -> Txt("String", <<>>)
      [] prop.type = "Enum" -> Txt("%1", GetRustEnumType(prop))
      [] prop.type = "BooleanList" -> Txt("Vec<bool>", <<>>)
      [] prop.type = "IntegerList" -> Txt("Vec<i32>", <<>>)
      [] prop.type = "UIntList" -> Txt("Vec<u32>", <<>>)
      [] prop.type = "LongList" -> Txt("Vec<i64>", <<>>)
      [] prop.type = "ULongList" -> Txt("Vec<u64>", <<>>)
      [] prop.type = "DoubleList" -> Txt("Vec<f64>", <<>>)
      [] prop.type = "StringList" -> Txt("Vec<String>", <<>>)
      [] prop.type = "EnumList" -> Txt("Vec<%1>", GetRustEnumType(prop))
      [] OTHER -> Txt("__builtin_unreachable()", <<>>)

GetRustAcceptType(prop) ==
    CASE prop.type = "Boolean" -> Txt("bool", <<>>)
      [] prop.type = "Integer" -> Txt("i32", <<>>)
      [] prop.type = "UInt" -> Txt("u32", <<>>)
      [] prop.type = "Long" -> Txt("i64", <<>>)
      [] prop.type = "ULong" -> Txt("u64", <<>>)
      [] prop.type = "Double" -> Txt("f64", <<>>)
      [] prop.type = "String" -> Txt("&str", <<>>)
      [] prop.type = "Enum" -> Txt("%1", GetRustEnumType(prop))
      [] prop.type = "BooleanList" -> Txt("&[bool]", <<>>)
      [] prop.type = "IntegerList" -> Txt("&[i32]", <<>>)
      [] prop.type = "UIntList" -> Txt("&[u32]", <<>>)
      [] prop.type = "LongList" -> Txt("&[i64]", <<>>)
      [] prop.type = "ULongList" -> Txt("&[u64]", <<>>)
      [] prop.type = "DoubleList" -> Txt("&[f64]", <<>>)
      [] prop.type = "StringList" -> Txt("&[String]", <<>>)
      [] prop.type = "EnumList" -> Txt("&[%1]", GetRustEnumType(prop))
      [] OTHER -> Txt("__builtin_unreachable()", <<>>)

GetTypeParser(prop) ==
    CASE prop.type = "Boolean" -> "parsers_formatters::parse_bool"
      [] prop.type \in {"Integer", "UInt", "Long", "ULong", "Double", "String", "Enum"}
            -> "parsers_formatters::parse"
      [] prop.type = "BooleanList" -> "parsers_formatters::parse_bool_list"
      [] prop.type \in {"IntegerList", "UIntList", "LongList", "ULongList",
                        "DoubleList", "StringList", "EnumList"}
            -> "parsers_formatters::parse_list"
      [] OTHER -> "__builtin_unreachable()"

GetTypeFormatter(prop) ==
    CASE prop.type = "Boolean" ->
            IF prop.integer_as_bool THEN "parsers_formatters::format_bool_as_int"
            ELSE "parsers_formatters::format_bool"
      [] prop.type \in {"String", "Integer", "UInt", "Long", "ULong", "Double", "Enum"}
            -> "parsers_formatters::format"
      [] prop.type = "BooleanList" ->
            IF prop.integer_as_bool THEN "parsers_formatters::format_bool_list_as_int"
            ELSE "parsers_formatters::format_bool_list"
      [] prop.type \in {"IntegerList", "UIntList", "LongList", "ULongList",
                        "DoubleList", "StringList", "EnumList"}
            -> "parsers_formatters::format_list"
      [] OTHER -> "__builtin_unreachable()"

\* a generated function: an item that also names the parser or formatter it
\* calls and the legacy key it falls back to
Fn(k, id, ty, key, legacy, call, vals) ==
    [kind |-> k, id |-> id, type |-> ty, key |-> key, values |-> vals,
     legacy |-> legacy, call |-> call]

\* what one iteration of the loop of GenerateRustSource writes
RustSourceProp(prop, sc) ==
    IF ScopeValue(prop.scope) > ScopeValue(sc) THEN <<>>
    ELSE
    LET prop_id == CamelCaseToSnakeCase(ApiNameToIdentifier(prop.api_name))
        prop_const == [i \in 1..Len(prop_id) |-> toupper(prop_id[i])]
                         \o <<"_","P","R","O","P">>
        enum_type == GetRustEnumType(prop)
        \* ParseEnumValues(prop.enum_values())
        values == Split(prop.enum_values, "|")
        identifier == IF prop_id = <<"t","y","p","e">>
                      THEN <<"r","#">> \o prop_id
                      ELSE prop_id
        \* prop.type() >= 20: the list types
        is_list == prop.type \in {"BooleanList", "IntegerList", "UIntList",
                                  "LongList", "ULongList", "DoubleList",
                                  "StringList", "EnumList"}
        mark == IF prop.deprecated
                THEN <<Item("#[deprecated]", <<>>, NoType, <<>>, <<>>)>>
                ELSE <<>>
    IN <<Item("const", prop_const, NoType, prop.prop_name, <<>>)>>
       \o (IF IsEnumType(prop.type)
           THEN <<Item("enum", enum_type, NoType, <<>>,
                       [k \in 1..Len(values) |-> SnakeCaseToCamelCase(values[k])]),
                  Item("from_str", enum_type, NoType, <<>>,
                       [k \in 1..Len(values) |->
                           <<values[k], SnakeCaseToCamelCase(values[k])>>]),
                  Item("Display", enum_type, NoType, <<>>,
                       [k \in 1..Len(values) |->
                           <<SnakeCaseToCamelCase(values[k]), values[k]>>])>>
           ELSE <<>>)
       \o mark
       \o <<Fn("getter", identifier, GetRustReturnType(prop), prop_const,
               prop.legacy_prop_name, GetTypeParser(prop), <<>>)>>
       \o (IF prop.access = "Readonly" THEN <<>>
           ELSE mark
                \o <<Fn("setter", <<"s","e","t","_">> \o prop_id,
                        GetRustAcceptType(prop), prop_const, <<>>,
                        GetTypeFormatter(prop),
                        <<IF prop.type = "String" THEN <<"v">>
                          ELSE IF is_list THEN <<"F","v">>
                          ELSE <<"F","&","v">>>>)>>)

\* every property written, whatever its scope
GenerateRustSource_Unfiltered(ps, sc) ==
    LET F(prop) == RustSourceProp(prop, "Internal")
    IN ForEachProp(ps, F)

GenerateRustSource(ps, sc) ==
    LET F(prop) == RustSourceProp(prop, sc)
    IN ForEachProp(ps, F)

-----------------------------------------------------------------------------
(* CodeWriter.  Of the calls a generator makes on its writer, the ones that *)
(* move the indentation level, "Indent" and "Dedent", in the order they are *)
(* made; the Write calls between them leave the level alone.                *)

\* the level after the first n calls; Indent() raises the level by one and
\* Dedent() lowers it by one, so a Dedent() made at level 0 shows as -1
RECURSIVE LevelAfter(_, _)
LevelAfter(calls, n) ==
    IF n = 0 THEN 0
    ELSE LevelAfter(calls, n - 1) + (IF calls[n] = "Indent" THEN 1 ELSE 0 - 1)

\* the enum class of an enum property is the only indented block
GenerateHeaderIndents(ps) ==
    LET F(prop) == IF IsEnumType(prop.type) THEN <<"Indent", "Dedent">> ELSE <<>>
    IN ForEachProp(ps, F)

\* first loop: the name table, DoParse and, unless readonly, FormatValue of
\* each enum property; second loop: the getter and, unless readonly, the setter
GenerateSourceIndents(ps) ==
    LET nested == <<"Indent", "Indent", "Indent", "Dedent", "Dedent", "Dedent">>
        Enum(prop) ==
            IF ~IsEnumType(prop.type) THEN <<>>
            ELSE <<"Indent", "Dedent">> \o nested
                    \o (IF ~prop.readonly THEN nested ELSE <<>>)
        Accessors(prop) ==
            <<"Indent", "Dedent">>
               \o (IF ~prop.readonly THEN <<"Indent", "Dedent">> ELSE <<>>)
    IN ForEachProp(ps, Enum) \o ForEachProp(ps, Accessors)

\* the class body, its static block, then per property the enum, the getter
\* and, unless readonly, the setter
GenerateJavaClassIndents(ps) ==
    LET F(prop) ==
            (IF IsEnumType(prop.type) THEN <<"Indent", "Dedent">> ELSE <<>>)
               \o <<"Indent", "Dedent">>
               \o (IF ~prop.readonly THEN <<"Indent", "Dedent">> ELSE <<>>)
    IN <<"Indent", "Indent", "Dedent">> \o ForEachProp(ps, F) \o <<"Dedent">>

\* per property the native getter and, unless readonly, the native setter;
\* then the method table, whose entries are written inside one block
GenerateJniLibraryIndents(ps) ==
    LET F(prop) ==
            <<"Indent", "Dedent">>
               \o (IF ~prop.readonly THEN <<"Indent", "Dedent">> ELSE <<>>)
    IN ForEachProp(ps, F) \o <<"Indent", "Dedent">>

\* the setter block is left open when the property is Readonly
GenerateRustSourceIndents_SetterLeftOpen(ps, sc) ==
    LET F(prop) ==
            IF ScopeValue(prop.scope) > ScopeValue(sc) THEN <<>>
            ELSE <<"Indent", "Indent", "Dedent", "Dedent">>
                    \o (IF prop.access = "Readonly" THEN <<"Indent">>
                        ELSE <<"Indent", "Dedent">>)
    IN ForEachProp(ps, F)

\* if (prop.scope() > scope) continue; then the enum with its two impl
\* blocks, the getter with its match and, with a legacy name, the fallback;
\* if (prop.access() == sysprop::Readonly) continue; then the setter
GenerateRustSourceIndents(ps, sc) ==
    LET nested == <<"Indent", "Indent", "Indent", "Dedent", "Dedent", "Dedent">>
        F(prop) ==
            IF ScopeValue(prop.scope) > ScopeValue(sc) THEN <<>>
            ELSE (IF IsEnumType(prop.type)
                  THEN <<"Indent", "Dedent">> \o nested \o nested
                  ELSE <<>>)
                    \o <<"Indent", "Indent", "Dedent">>
                    \o (IF prop.legacy_prop_name # <<>>
                        THEN <<"Indent", "Dedent">>
                        ELSE <<>>)
                    \o <<"Dedent">>
                    \o (IF prop.access = "Readonly" THEN <<>>
                        ELSE <<"Indent", "Dedent">>)
    IN ForEachProp(ps, F)

-----------------------------------------------------------------------------
(* The drivers: GenerateCppFiles (CppGen.cpp), GenerateJavaLibrary (JavaGen.cpp) *)

\* the path as the string the code builds: components joined by '/'
RECURSIVE PathStr(_)
PathStr(path) ==
    IF path = <<>> THEN <<".">>
    ELSE IF Len(path) = 1 THEN path[1]
    ELSE PathStr(Parent(path)) \o <<"/">> \o path[Len(path)]

ErrCreatingDirectory(dir) ==
    Msg("Creating directory to %1 failed: %2", PathStr(dir), NoArg)
ErrWritingHeader(path) ==
    Msg("Writing generated header to %1 failed: %2", PathStr(path), NoArg)
ErrWritingSource(path) ==
    Msg("Writing generated source to %1 failed: %2", PathStr(path), NoArg)
ErrWritingJavaClass(path) ==
    Msg("Writing generated java class to %1 failed: %2", PathStr(path), NoArg)
ErrWritingJniLibrary(path) ==
    Msg("Writing generated jni library to %1 failed: %2", PathStr(path), NoArg)

kDotH == <<".","h">>
kDotCpp == <<".","c","p","p">>
kDotJava == <<".","j","a","v","a">>
kJniCpp == <<"_","j","n","i",".","c","p","p">>

HeaderPath == Append(args.first_dir, args.basename \o kDotH)
SourcePath == Append(args.second_dir, args.basename \o kDotCpp)

\* java_output_dir + "/" + regex_replace(package_name, kRegexDot, "/")
JavaPackageDir == args.first_dir \o Split(GetJavaPackageName(props), ".")
JavaOutputFile == Append(JavaPackageDir, GetJavaClassName(props) \o kDotJava)
JniOutputFile == Append(args.second_dir, GetJavaClassName(props) \o kJniCpp)

\* return false with *err = e
ReturnFalse(e) == err' = e /\ ret' = "false" /\ pc' = "done"

\* if (!ParseProps(input_file_path, &props, err)) return false;
ParseStep(t) ==
    /\ pc = "start"
    /\ target = t
    /\ LET r == ParsePropsResult(file, props, err)
       IN /\ props' = r.props
          /\ IF r.ok
             THEN pc' = "gen1" /\ UNCHANGED <<err, ret>>
             ELSE ReturnFalse(r.err)
    /\ trace' = Append(trace, "parse")
    /\ UNCHANGED <<target, file, first_result, second_result, dirs, files,
                   denied, args, fs0, scope, runtime>>

\* the failure sets *err but the return is missing: the run goes on
EnsureDirStep_NoReturn(t, at, next, step, dir) ==
    /\ pc = at
    /\ target = t
    /\ IF IsDirectory(dir)
       THEN UNCHANGED <<dirs, err>>
       ELSE LET r == CreateDirectories(dirs, dir)
            IN /\ dirs' = r.dirs
               /\ err' = IF r.ok THEN err ELSE ErrCreatingDirectory(dir)
    /\ pc' = next
    /\ trace' = Append(trace, step)
    /\ UNCHANGED <<target, file, props, ret, first_result, second_result, files,
                   denied, args, fs0, scope, runtime>>

\* if (!IsDirectory(dir) && !CreateDirectories(dir)) { *err = ...; return false; }
EnsureDirStep(t, at, next, step, dir) ==
    /\ pc = at
    /\ target = t
    /\ IF IsDirectory(dir)
       THEN pc' = next /\ UNCHANGED <<dirs, err, ret>>
       ELSE LET r == CreateDirectories(dirs, dir)
            IN /\ dirs' = r.dirs
               /\ IF r.ok
                  THEN pc' = next /\ UNCHANGED <<err, ret>>
                  ELSE ReturnFalse(ErrCreatingDirectory(dir))
    /\ trace' = Append(trace, step)
    /\ UNCHANGED <<target, file, props, first_result, second_result, files,
                   denied, args, fs0, scope, runtime>>

\* the failure sets *err but the return is missing: the run goes on
WriteStep_NoReturn(t, at, next, step, content, path, e) ==
    /\ pc = at
    /\ target = t
    /\ \E io_ok \in BOOLEAN :
          LET r == WriteStringToFile(content, path, io_ok)
          IN /\ files' = r.files
             /\ err' = IF r.ok THEN err ELSE e
    /\ pc' = next
    /\ ret' = IF next = "done" THEN "true" ELSE ret
    /\ trace' = Append(trace, step)
    /\ UNCHANGED <<target, file, props, first_result, second_result, dirs,
                   denied, args, fs0, scope, runtime>>

\* if (!WriteStringToFile(content, path)) { *err = ...; return false; }
WriteStep(t, at, next, step, content, path, e) ==
    /\ pc = at
    /\ target = t
    /\ \E io_ok \in BOOLEAN :
          LET r == WriteStringToFile(content, path, io_ok)
          IN /\ files' = r.files
             /\ IF r.ok
                THEN /\ pc' = next
                     /\ ret' = IF next = "done" THEN "true" ELSE ret
                     /\ UNCHANGED err
                ELSE ReturnFalse(e)
    /\ trace' = Append(trace, step)
    /\ UNCHANGED <<target, file, props, first_result, second_result, dirs,
                   denied, args, fs0, scope, runtime>>

CppParse == ParseStep("cpp")

CppGenerateHeader ==
    /\ pc = "gen1"
    /\ target = "cpp"
    /\ first_result' = GenerateHeader(props)
    /\ pc' = "gen2"
    /\ trace' = Append(trace, "gen1")
    /\ UNCHANGED <<target, file, props, err, ret, second_result, dirs, files,
                   denied, args, fs0, scope, runtime>>

CppGenerateSource ==
    /\ pc = "gen2"
    /\ target = "cpp"
    /\ second_result' = GenerateSource(props)
    /\ pc' = "dir1"
    /\ trace' = Append(trace, "gen2")
    /\ UNCHANGED <<target, file, props, err, ret, first_result, dirs, files,
                   denied, args, fs0, scope, runtime>>

CppHeaderDir == EnsureDirStep("cpp", "dir1", "dir2", "dir1", args.first_dir)
CppSourceDir == EnsureDirStep("cpp", "dir2", "write1", "dir2", args.second_dir)
CppWriteHeader ==
    WriteStep("cpp", "write1", "write2", "write1", first_result, HeaderPath,
              ErrWritingHeader(HeaderPath))
CppWriteSource ==
    WriteStep("cpp", "write2", "done", "write2", second_result, SourcePath,
              ErrWritingSource(SourcePath))

JavaParse == ParseStep("java")

JavaGenerateClass ==
    /\ pc = "gen1"
    /\ target = "java"
    /\ first_result' = GenerateJavaClass(props)
    /\ pc' = "gen2"
    /\ trace' = Append(trace, "gen1")
    /\ UNCHANGED <<target, file, props, err, ret, second_result, dirs, files,
                   denied, args, fs0, scope, runtime>>

JavaGenerateJni ==
    /\ pc = "gen2"
    /\ target = "java"
    /\ second_result' = GenerateJniLibrary(props)
    /\ pc' = "dir1"
    /\ trace' = Append(trace, "gen2")
    /\ UNCHANGED <<target, file, props, err, ret, first_result, dirs, files,
                   denied, args, fs0, scope, runtime>>

JavaPackageDirStep == EnsureDirStep("java", "dir1", "dir2", "dir1", JavaPackageDir)
JavaJniDirStep == EnsureDirStep("java", "dir2", "write1", "dir2", args.second_dir)
JavaWriteClass ==
    WriteStep("java", "write1", "write2", "write1", first_result, JavaOutputFile,
              ErrWritingJavaClass(JavaOutputFile))
JavaWriteJni ==
    WriteStep("java", "write2", "done", "write2", second_result, JniOutputFile,
              ErrWritingJniLibrary(JniOutputFile))

(* GenerateRustLibrary, RustGen.cpp *)

RustLibPath == Append(args.first_dir, <<"m","o","d",".","r","s">>)

ErrWritingRustLib(path) ==
    Msg("Writing generated rust lib to %1 failed", PathStr(path), NoArg)

\* if (auto res = ParseProps(input_file_path); res.ok()) props = std::move(*res);
\* else return res.error();
RustParse ==
    /\ pc = "start"
    /\ target = "rust"
    /\ IF file.readable /\ file.parses
       THEN props' = file.schema /\ pc' = "gen1" /\ UNCHANGED <<err, ret>>
       ELSE /\ UNCHANGED props
            /\ ReturnFalse(IF file.readable THEN ErrParsingFile ELSE ErrReadingFile)
    /\ trace' = Append(trace, "parse")
    /\ UNCHANGED <<target, file, first_result, second_result, dirs, files,
                   denied, args, fs0, scope, runtime>>

RustGenerate ==
    /\ pc = "gen1"
    /\ target = "rust"
    /\ first_result' = GenerateRustSource(props, scope)
    /\ pc' = "write1"
    /\ trace' = Append(trace, "gen1")
    /\ UNCHANGED <<target, file, props, err, ret, second_result, dirs, files,
                   denied, args, fs0, scope, runtime>>

RustWriteLib ==
    WriteStep("rust", "write1", "done", "write1", first_result, RustLibPath,
              ErrWritingRustLib(RustLibPath))

-----------------------------------------------------------------------------
(* The generated accessors at run time.  The property store maps a key to    *)
(* its raw string; out is the result of the last accessor call and reads the *)
(* keys that call looked up, in order.  An optional value is <<>> or <<v>>;  *)
(* a parsed enum value is the name of its member, a parsed list a tuple.     *)

\* __system_property_find and __system_property_read_callback
Find(key) ==
    IF \E e \in store : e.key = key
    THEN <<(CHOOSE e \in store : e.key = key).value>>
    ELSE <<>>

\* the sign read and dropped
ParseInt_Unsigned(str, w) ==
    LET neg == str # <<>> /\ str[1] = "-"
        body == IF neg THEN Tail(str) ELSE str
        digits == <<"0","1","2","3","4","5","6","7","8","9">>
        digit(c) == (CHOOSE i \in 1..10 : digits[i] = c) - 1
        RECURSIVE val(_)
        val(n) == IF n = 0 THEN 0 ELSE 10 * val(n - 1) + digit(body[n])
    IN IF body = <<>> \/ \E i \in 1..Len(body) : ~isdigit(body[i]) THEN <<>>
       ELSE <<val(Len(body))>>

\* android::base::ParseInt into a signed integer of w bits: an optional '-',
\* then decimal digits up to the end of the string, the value in range (a
\* number the model can hold is always in the range of 64 bits)
ParseInt(str, w) ==
    LET neg == str # <<>> /\ str[1] = "-"
        body == IF neg THEN Tail(str) ELSE str
        digits == <<"0","1","2","3","4","5","6","7","8","9">>
        digit(c) == (CHOOSE i \in 1..10 : digits[i] = c) - 1
        RECURSIVE val(_)
        val(n) == IF n = 0 THEN 0 ELSE 10 * val(n - 1) + digit(body[n])
        v == IF neg THEN 0 - val(Len(body)) ELSE val(Len(body))
    IN IF body = <<>> \/ \E i \in 1..Len(body) : ~isdigit(body[i]) THEN <<>>
       ELSE IF w = 32 /\ (v < 0 - 2147483647 - 1 \/ v > 2147483647) THEN <<>>
       ELSE <<v>>

\* DoParse<T> of kCppParsersAndFormatters and the DoParse specialisation
\* written for an enum type, which searches the <id>_list of the artifact
DoParse(art, elem, arg, str) ==
    LET lower == [i \in 1..Len(str) |-> tolower(str[i])]
        IsList(it) == it.kind = "_list" /\ it.type.arg = arg
        names == art[CHOOSE k \in 1..Len(art) : IsList(art[k])].values
    IN CASE elem = "bool" ->
               IF lower \in {<<"1">>, <<"t","r","u","e">>} THEN <<TRUE>>
               ELSE IF lower \in {<<"0">>, <<"f","a","l","s","e">>} THEN <<FALSE>>
               ELSE <<>>
         [] elem = "std::int32_t" -> ParseInt(str, 32)
         [] elem = "std::int64_t" -> ParseInt(str, 64)
         [] elem = "std::string" -> <<str>>
         [] elem = "%1" ->
               IF \E i \in 1..Len(names) : names[i] = str
               THEN <<names[CHOOSE i \in 1..Len(names) : names[i] = str]>>
               ELSE <<>>

\* TryParse<T>: DoParseList over android::base::Split(str, ",") for a vector
\* type, DoParse otherwise
TryParse(art, type, str) ==
    LET elem == CASE type.tmpl = "std::vector<bool>" -> "bool"
                  [] type.tmpl = "std::vector<std::int32_t>" -> "std::int32_t"
                  [] type.tmpl = "std::vector<std::int64_t>" -> "std::int64_t"
                  [] type.tmpl = "std::vector<std::string>" -> "std::string"
                  [] type.tmpl = "std::vector<%1>" -> "%1"
                  [] OTHER -> type.tmpl
        parts == Split(str, ",")
        parsed == [i \in 1..Len(parts) |-> DoParse(art, elem, type.arg, parts[i])]
    IN IF elem = type.tmpl THEN DoParse(art, elem, type.arg, str)
       ELSE IF \E i \in 1..Len(parts) : Len(parsed[i]) = 0 THEN <<>>
       ELSE <<[i \in 1..Len(parts) |-> parsed[i][1]]>>

\* libc::GetProp<T>(key) of kCppLibcUtil
GetProp(art, type, key) ==
    LET pi == Find(key)
    IN IF Len(pi) = 0 THEN <<>> ELSE TryParse(art, type, pi[1])

\* the FormatValue overloads of kCppParsersAndFormatters (std::to_string for
\* the integers, "true" / "false", the vector template) and the FormatValue
\* written for an enum type of a property that is not read-only: the name of
\* the first pair of <id>_list whose value is the one given.  The result is
\* <<text>>, or <<>> when the loop ends without one and LOG(FATAL) aborts.
FormatValue(art, type, value) ==
    LET IsList(it) == it.kind = "_list" /\ it.type.arg = type.arg
        names == art[CHOOSE k \in 1..Len(art) : IsList(art[k])].values
        digits == <<"0","1","2","3","4","5","6","7","8","9">>
        RECURSIVE natural(_)
        natural(n) == IF n < 10 THEN <<digits[n + 1]>>
                      ELSE natural(n \div 10) \o <<digits[(n % 10) + 1]>>
        to_string(n) == IF n < 0 THEN <<"-">> \o natural(0 - n) ELSE natural(n)
        elem == CASE type.tmpl = "std::vector<bool>" -> "bool"
                  [] type.tmpl = "std::vector<std::int32_t>" -> "std::int32_t"
                  [] type.tmpl = "std::vector<std::int64_t>" -> "std::int64_t"
                  [] type.tmpl = "std::vector<std::string>" -> "std::string"
                  [] type.tmpl = "std::vector<%1>" -> "%1"
                  [] OTHER -> type.tmpl
        one(v) ==
            CASE elem = "bool" ->
                    IF v THEN <<"t","r","u","e">> ELSE <<"f","a","l","s","e">>
              [] elem \in {"std::int32_t", "std::int64_t"} -> to_string(v)
              [] elem = "std::string" -> v
              [] elem = "%1" ->
                    names[CHOOSE i \in 1..Len(names) :
                             /\ names[i] = v
                             /\ \A j \in 1..(i - 1) : names[j] # v]
        fatal(v) == elem = "%1" /\ \A i \in 1..Len(names) : names[i] # v
        \* for (auto&& element : value) {
        \*     if (ret.empty()) ret.push_back(',');
        \*     ret += FormatValue(element); }
        RECURSIVE loop(_)
        loop(n) == IF n = 0 THEN <<>>
                   ELSE (IF loop(n - 1) = <<>> THEN <<",">> ELSE loop(n - 1))
                        \o one(value[n])
    IN IF elem = type.tmpl
       THEN (IF fatal(value) THEN <<>> ELSE <<one(value)>>)
       ELSE IF \E n \in 1..Len(value) : fatal(value[n]) THEN <<>>
       ELSE <<loop(Len(value))>>

\* fmt of the Display written for an enum type: the token of the first arm
\* of the match that names the member
Display(art, enum_type, member) ==
    LET IsDisplay(it) == it.kind = "Display" /\ it.id = enum_type
        arms == art[CHOOSE k \in 1..Len(art) : IsDisplay(art[k])].values
    IN <<arms[CHOOSE i \in 1..Len(arms) :
                 /\ arms[i][1] = member
                 /\ \A j \in 1..(i - 1) : arms[j][1] # member][2]>>

\* no generated accessor has been called
NoOut == [fn |-> <<>>, kind |-> "none", value |-> <<>>]

Result(fn, opt) ==
    [fn |-> fn, kind |-> IF Len(opt) = 0 THEN "absent" ELSE "present", value |-> opt]

\* a call of a getter of the generated C++ source
CppGet ==
    /\ pc = "done" /\ ret = "true" /\ target = "cpp"
    /\ \E k \in 1..Len(second_result) :
          /\ second_result[k].kind = "getter"
          /\ out' = Result(second_result[k].id,
                           GetProp(second_result, second_result[k].type,
                                   second_result[k].key))
          /\ reads' = <<second_result[k].key>>
    /\ UNCHANGED <<pc, target, file, props, err, ret, first_result,
                   second_result, dirs, files, denied, args, fs0, trace, scope,
                   store, broken>>

\* values a caller may pass to a setter of the type; a list has at most
\* MaxListLen elements
ValuesOf(type) ==
    LET scalars(elem) ==
            CASE elem = "bool" -> BOOLEAN
              [] elem = "std::int32_t" -> {0 - 1, 0, 7, 12, 2147483647}
              [] elem = "std::int64_t" -> {0 - 12, 0, 1}
              [] elem = "std::string" -> {<<>>, <<"a">>, <<"b">>}
              [] elem = "%1" -> {<<"a">>, <<"b">>, <<"A">>}
        lists(elem) == UNION {[1..n -> scalars(elem)] : n \in 0..MaxListLen}
    IN CASE type.tmpl = "std::vector<bool>" -> lists("bool")
         [] type.tmpl = "std::vector<std::int32_t>" -> lists("std::int32_t")
         [] type.tmpl = "std::vector<std::int64_t>" -> lists("std::int64_t")
         [] type.tmpl = "std::vector<std::string>" -> lists("std::string")
         [] type.tmpl = "std::vector<%1>" -> lists("%1")
         [] OTHER -> scalars(type.tmpl)

\* a call of a setter of the generated C++ source:
\* libc::system_property_set(key, value or FormatValue(value).c_str())
CppSet ==
    /\ pc = "done" /\ ret = "true" /\ target = "cpp"
    /\ \E k \in 1..Len(second_result) :
          /\ second_result[k].kind = "setter"
          /\ \E value \in ValuesOf(second_result[k].type) :
                LET text == IF second_result[k].values = <<<<"v">>>>
                            THEN <<value>>
                            ELSE FormatValue(second_result, second_result[k].type,
                                             value)
                IN /\ Len(text) = 1
                   /\ store' = {e \in store : e.key # second_result[k].key}
                                  \cup {[key |-> second_result[k].key,
                                         value |-> text[1]]}
                   /\ out' = [fn |-> second_result[k].id, kind |-> "set",
                              value |-> <<value>>]
    /\ reads' = <<>>
    /\ UNCHANGED <<pc, target, file, props, err, ret, first_result,
                   second_result, dirs, files, denied, args, fs0, trace, scope,
                   broken>>

\* GetProp(env, key) of kJniLibraryUtils: the empty string for a key not found
JniGetProp(key) ==
    LET pi == Find(key)
    IN IF Len(pi) = 0 THEN <<>> ELSE pi[1]

\* String.split(","): the pieces between the commas without the trailing
\* empty ones; a string without a comma is its own single piece
JavaSplit(str) ==
    LET RECURSIVE Trim(_)
        Trim(ps) == IF ps # <<>> /\ Len(ps[Len(ps)]) = 0
                    THEN Trim(SubSeq(ps, 1, Len(ps) - 1))
                    ELSE ps
    IN IF FindFirstOf(str, ",", 1) = 0 THEN <<str>> ELSE Trim(Split(str, ","))

\* the tryParse methods of kJavaParsersAndFormatters; null is <<>>
JavaTryParse(art, expr, str) ==
    LET lower(s) == [i \in 1..Len(s) |-> tolower(s[i])]
        yes == {<<"1">>, <<"y">>, <<"y","e","s">>, <<"o","n">>, <<"t","r","u","e">>}
        no == {<<"0">>, <<"n">>, <<"n","o">>, <<"o","f","f">>,
               <<"f","a","l","s","e">>}
        \* Integer.valueOf and Long.valueOf take a leading '+' as well
        valueOf(s, w) == IF s # <<>> /\ s[1] = "+"
                         THEN (IF Len(s) > 1 /\ isdigit(s[2])
                               THEN ParseInt(Tail(s), w) ELSE <<>>)
                         ELSE ParseInt(s, w)
        IsEnum(it) == it.kind = "enum" /\ it.id = expr[2]
        constants == art[CHOOSE k \in 1..Len(art) : IsEnum(art[k])].values
        element(parser, s) ==
            CASE parser = "tryParseBoolean" ->
                    IF lower(s) \in yes THEN <<TRUE>>
                    ELSE IF lower(s) \in no THEN <<FALSE>> ELSE <<>>
              [] parser = "tryParseInteger" -> valueOf(s, 32)
              [] parser = "tryParseLong" -> valueOf(s, 64)
              [] parser = "tryParseString" -> <<s>>
              [] parser = "tryParseEnum" ->
                    IF \E i \in 1..Len(constants) : constants[i] = s
                    THEN <<s>> ELSE <<>>
        parts == JavaSplit(str)
        each == IF expr[1] = "tryParseEnumList" THEN "tryParseEnum" ELSE expr[2]
        parsed == [i \in 1..Len(parts) |-> element(each, parts[i])]
    IN IF expr[1] \notin {"tryParseList", "tryParseEnumList"}
       THEN element(expr[1], str)
       ELSE IF \E i \in 1..Len(parts) : Len(parsed[i]) = 0 THEN <<>>
       ELSE <<[i \in 1..Len(parts) |-> parsed[i][1]]>>

\* a call of a getter of the generated Java class: Optional.ofNullable of the
\* parsing expression applied to what the native method returns, which is
\* the JNI function the registration table binds to it
JavaGet ==
    /\ pc = "done" /\ ret = "true" /\ target = "java"
    /\ \E k \in 1..Len(first_result), r, f \in 1..Len(second_result) :
          /\ first_result[k].kind = "getter"
          /\ second_result[r].kind = "native_get"
          /\ second_result[r].id = first_result[k].id
          /\ second_result[f].kind = "_get"
          /\ second_result[f].id = second_result[r].id
          /\ out' = Result(first_result[k].id,
                           JavaTryParse(first_result, first_result[k].values,
                                        JniGetProp(second_result[f].key)))
          /\ reads' = <<second_result[f].key>>
    /\ UNCHANGED <<pc, target, file, props, err, ret, first_result,
                   second_result, dirs, files, denied, args, fs0, trace, scope,
                   store, broken>>

\* the parser a generated getter names, applied to a raw value; a failure
\* is <<>>.  parse is T::from_str: the generated from_str of an enum type, a
\* signed decimal number for i32 and i64, any string for String.
RustParser(art, g, s) ==
    LET IsFromStr(it) == it.kind = "from_str" /\ it.id = g.type.arg
        arms == art[CHOOSE k \in 1..Len(art) : IsFromStr(art[k])].values
        number(w) == IF s # <<>> /\ s[1] = "+"
                     THEN (IF Len(s) > 1 /\ isdigit(s[2])
                           THEN ParseInt(Tail(s), w) ELSE <<>>)
                     ELSE ParseInt(s, w)
        lower == [i \in 1..Len(s) |-> tolower(s[i])]
    IN CASE g.call = "parsers_formatters::parse_bool" ->
               IF lower \in {<<"1">>, <<"y">>, <<"y","e","s">>, <<"o","n">>,
                             <<"t","r","u","e">>} THEN <<TRUE>>
               ELSE IF lower \in {<<"0">>, <<"n">>, <<"n","o">>, <<"o","f","f">>,
                                  <<"f","a","l","s","e">>} THEN <<FALSE>>
               ELSE <<>>
         [] g.call = "parsers_formatters::parse" /\ g.type.tmpl = "i32" -> number(32)
         [] g.call = "parsers_formatters::parse" /\ g.type.tmpl = "i64" -> number(64)
         [] g.call = "parsers_formatters::parse" /\ g.type.tmpl = "String" -> <<s>>
         [] g.call = "parsers_formatters::parse" /\ g.type.tmpl = "%1" ->
               IF \E i \in 1..Len(arms) : arms[i][1] = s
               THEN <<arms[CHOOSE i \in 1..Len(arms) : arms[i][1] = s][2]>>
               ELSE <<>>

\* system_properties::read(key) followed by the arms of the generated match:
\* Err(e) => FetchError, Ok(Some(val)) => parser(val) or ParseError,
\* Ok(None) => Ok(None)
RustRead(art, g, key) ==
    LET val == Find(key)
    IN IF key \in broken
       THEN [fn |-> g.id, kind |-> "FetchError", value |-> <<>>]
       ELSE IF Len(val) = 0
       THEN [fn |-> g.id, kind |-> "absent", value |-> <<>>]
       ELSE IF Len(RustParser(art, g, val[1])) = 0
       THEN [fn |-> g.id, kind |-> "ParseError", value |-> <<>>]
       ELSE [fn |-> g.id, kind |-> "present", value |-> RustParser(art, g, val[1])]

\* the getter without the fallback: the result of the primary read is returned
RustGet_NoFallback ==
    /\ pc = "done" /\ ret = "true" /\ target = "rust"
    /\ \E k, c \in 1..Len(first_result) :
          LET g == first_result[k]
              const == first_result[c]
          IN /\ g.kind = "getter"
             /\ const.kind = "const" /\ const.id = g.key
             /\ out' = RustRead(first_result, g, const.key)
             /\ reads' = <<const.key>>
    /\ UNCHANGED <<pc, target, file, props, err, ret, first_result,
                   second_result, dirs, files, denied, args, fs0, trace, scope,
                   store, broken>>

\* the getter that goes on to the legacy property whatever the primary
\* read gave
RustGet_AlwaysFallback ==
    /\ pc = "done" /\ ret = "true" /\ target = "rust"
    /\ \E k, c \in 1..Len(first_result) :
          LET g == first_result[k]
              const == first_result[c]
          IN /\ g.kind = "getter"
             /\ const.kind = "const" /\ const.id = g.key
             /\ IF g.legacy # <<>>
                THEN /\ out' = RustRead(first_result, g, g.legacy)
                     /\ reads' = <<const.key, g.legacy>>
                ELSE /\ out' = RustRead(first_result, g, const.key)
                     /\ reads' = <<const.key>>
    /\ UNCHANGED <<pc, target, file, props, err, ret, first_result,
                   second_result, dirs, files, denied, args, fs0, trace, scope,
                   store, broken>>

\* a call of a getter of the generated Rust module: the property of the
\* constant is read; with a legacy name, a result that is not Ok gives way
\* to the read of the legacy property
RustGet ==
    /\ pc = "done" /\ ret = "true" /\ target = "rust"
    /\ \E k, c \in 1..Len(first_result) :
          LET g == first_result[k]
              const == first_result[c]
              result == RustRead(first_result, g, const.key)
          IN /\ g.kind = "getter"
             /\ const.kind = "const" /\ const.id = g.key
             /\ IF g.legacy # <<>> /\ result.kind \in {"FetchError", "ParseError"}
                THEN /\ out' = RustRead(first_result, g, g.legacy)
                     /\ reads' = <<const.key, g.legacy>>
                ELSE /\ out' = result
                     /\ reads' = <<const.key>>
    /\ UNCHANGED <<pc, target, file, props, err, ret, first_result,
                   second_result, dirs, files, denied, args, fs0, trace, scope,
                   store, broken>>

\* the keys the generated accessors name
KeysNamed ==
    LET keys(art, kind) ==
            {art[k].key : k \in {i \in 1..Len(art) : art[i].kind = kind}}
        legacy(art) ==
            {art[k].legacy : k \in {i \in 1..Len(art) : art[i].kind = "getter"}}
    IN CASE target = "cpp" -> keys(second_result, "getter")
         [] target = "java" -> keys(second_result, "_get")
         [] target = "rust" ->
               keys(first_result, "const") \cup (legacy(first_result) \ {<<>>})

\* raw values of a property: numbers, booleans, enum tokens, lists, none
Raws ==
    {<<>>, <<"1">>, <<"0">>, <<"-","1">>, <<"t","r","u","e">>, <<"T","R","U","E">>,
     <<"y">>, <<"a">>, <<"A">>, <<"b">>, <<"a",",","b">>, <<"a",",">>,
     <<"1",",","0">>, <<",">>, <<"0","1">>, <<"-","0">>}

\* the environment sets a property the accessors name (setprop, init)
Setprop ==
    /\ pc = "done" /\ ret = "true"
    /\ \E key \in KeysNamed, raw \in Raws :
          /\ Len(Find(key)) = 0
          /\ store' = store \cup {[key |-> key, value |-> raw]}
    /\ out' = NoOut /\ reads' = <<>>
    /\ UNCHANGED <<pc, target, file, props, err, ret, first_result,
                   second_result, dirs, files, denied, args, fs0, trace, scope,
                   broken>>

\* the property service fails to fetch a property from now on
FetchFails ==
    /\ pc = "done" /\ ret = "true" /\ target = "rust"
    /\ \E key \in KeysNamed :
          /\ key \notin broken
          /\ broken' = broken \cup {key}
    /\ out' = NoOut /\ reads' = <<>>
    /\ UNCHANGED <<pc, target, file, props, err, ret, first_result,
                   second_result, dirs, files, denied, args, fs0, trace, scope,
                   store>>

-----------------------------------------------------------------------------
(* Inputs *)

sEmpty == <<>>
sA == <<"a">>
sAB == <<"a",".","b">>
sA_B == <<"a","_","b">>
sA1 == <<"a",".","1">>
sADot == <<"a",".">>
sOdm == <<"o","d","m">>
sVendorB == <<"v","e","n","d","o","r",".","b">>
sVendorA == <<"v","e","n","d","o","r",".","a">>
sBang == <<"!">>
sC == <<"c">>
sE == <<"e">>
sEnumAB == <<"a","|","b">>
sEnumAA == <<"a","|","a">>

Owners == {"Platform", "Vendor", "Odm"}
Modules == {sEmpty, sA1, sAB, kPlatformModule}
Prefixes == {sEmpty, sOdm, sVendorB, sADot}
\* name, has_readonly, readonly
NameCases == {<<sAB, FALSE, FALSE>>,
              <<sA_B, TRUE, TRUE>>,
              <<sVendorA, TRUE, FALSE>>,
              <<sBang, FALSE, FALSE>>}

\* type, enum_values
TypeCases == {<<"Integer", sEmpty>>,
              <<"Enum", sEnumAB>>,
              <<"EnumList", sEnumAA>>,
              <<"Enum", sBang>>}

PropPool ==
    {Prop(n[1], t[1], t[2], n[2], n[3], "Public") : n \in NameCases, t \in TypeCases}
    \cup {Prop(sC, "String", sEmpty, TRUE, FALSE, "Public")}

\* the schemas of at most n properties
SchemaPool(n) ==
    {Schema(o, m, p, ps) :
        o \in Owners, m \in Modules, p \in Prefixes,
        ps \in UNION {[1..k -> PropPool] : k \in 0..n}}

GoodFile(sch) == [readable |-> TRUE, parses |-> TRUE, schema |-> sch]

NoArgs == [basename |-> <<>>, first_dir |-> <<>>, second_dir |-> <<>>]

\* the state when a driver is called: the generated code has not run yet
InitRun(t, f, a, ds, fs, dn, sc, st, br) ==
    /\ pc = "start"
    /\ target = t
    /\ file = f
    /\ props = EmptyProps
    /\ err = EmptyErr
    /\ ret = "none"
    /\ first_result = <<>>
    /\ second_result = <<>>
    /\ dirs = ds
    /\ files = fs
    /\ denied = dn
    /\ args = a
    /\ fs0 = [dirs |-> ds, files |-> fs]
    /\ trace = <<>>
    /\ scope = sc
    /\ store = st
    /\ broken = br
    /\ out = NoOut
    /\ reads = <<>>

InitCall(t, f, a, ds, fs, dn) == InitRun(t, f, a, ds, fs, dn, "Internal", {}, {})

\* a file that cannot be read (schema: what it would hold), or whose text
\* stops parsing after schema has been read from it
BadFile(r, sch) == [readable |-> r, parses |-> FALSE, schema |-> sch]

FilePool(n) ==
    {GoodFile(sch) : sch \in SchemaPool(n)}
    \cup {BadFile(r, sch) : r \in BOOLEAN, sch \in SchemaPool(1)}

\* ParseProps on every file of the pool
InitValidate ==
    \E f \in FilePool(MaxProps) : InitCall("parse", f, NoArgs, {}, {}, {})

NextParse == ParseProps

SpecValidate == InitValidate /\ [][NextParse]_vars

\* ParseProps on a schema of one property, whose name is any string
IdentAlphabet == {"a", "Z", "1", "_", ".", "!"}

InitIdent ==
    \E s \in StringsUpTo(IdentAlphabet, MaxLen) :
       InitCall("parse",
                GoodFile(Schema("Vendor", sAB, sEmpty,
                                <<Prop(s, "Integer", sEmpty, FALSE, FALSE, "Public")>>)),
                NoArgs, {}, {}, {})

SpecIdent == InitIdent /\ [][NextParse]_vars

\* ParseProps on a schema of one property, whose enum_values is any string
EnumAlphabet == {"a", "b", "|", "!"}

InitEnum ==
    \E ev \in StringsUpTo(EnumAlphabet, MaxEnumLen),
       t \in {"Enum", "EnumList", "Integer"} :
       InitCall("parse",
                GoodFile(Schema("Vendor", sAB, sEmpty,
                                <<Prop(sE, t, ev, FALSE, FALSE, "Public")>>)),
                NoArgs, {}, {}, {})

SpecEnum == InitEnum /\ [][NextParse]_vars

-----------------------------------------------------------------------------
(* The rules of the schema, stated without the validator's code *)

In == file.schema
Returned == pc = "done"
Parsed == file.readable /\ file.parses

Least(S) == CHOOSE i \in S : \A j \in S : i <= j

CutsOf(s, d) == {i \in 1..Len(s) : s[i] = d}
NumSegments(s, d) == Cardinality(CutsOf(s, d)) + 1
\* the k-th of the segments the delimiter d cuts s into
Segment(s, d, k) ==
    LET cuts == CutsOf(s, d)
        Nth(n) == CHOOSE i \in cuts : Cardinality({j \in cuts : j <= i}) = n
        lo == IF k = 1 THEN 0 ELSE Nth(k - 1)
        hi == IF k = Cardinality(cuts) + 1 THEN Len(s) + 1 ELSE Nth(k)
    IN SubSeq(s, lo + 1, hi - 1)
SegmentIndices(s, d) == 1..NumSegments(s, d)

BareIdentifier(s) ==
    /\ Len(s) >= 1
    /\ s[1] \in Alpha \cup {"_"}
    /\ \A i \in 2..Len(s) : s[i] \in Alpha \cup Digit \cup {"_"}

DottedIdentifier(s) ==
    /\ Len(s) >= 1
    /\ \A k \in SegmentIndices(s, ".") : BareIdentifier(Segment(s, ".", k))

HasPrefix(s, pre) ==
    \A i \in 1..Len(pre) : i <= Len(s) /\ s[i] = pre[i]

Flattened(s) == [i \in 1..Len(s) |-> IF s[i] = "." THEN "_" ELSE s[i]]

IsEnumProp(p) == p.type = "Enum" \/ p.type = "EnumList"

ModuleCountOk(sch) == NumSegments(sch.module, ".") >= 2
BadModuleSegments(sch) ==
    {k \in SegmentIndices(sch.module, ".") :
        ~BareIdentifier(Segment(sch.module, ".", k))}
PrefixOk(sch) == sch.prefix = <<>> \/ DottedIdentifier(sch.prefix)
NonEmpty(sch) == Len(sch.prop) >= 1
HeaderOk(sch) ==
    /\ ModuleCountOk(sch)
    /\ BadModuleSegments(sch) = {}
    /\ PrefixOk(sch)
    /\ NonEmpty(sch)

NameOk(p) == DottedIdentifier(p.name)
BadEnumValues(p) ==
    {k \in SegmentIndices(p.enum_values, "|") :
        ~BareIdentifier(Segment(p.enum_values, "|", k))}
RepeatedEnumValues(p) ==
    {k \in SegmentIndices(p.enum_values, "|") :
        \E j \in 1..(k - 1) :
           Segment(p.enum_values, "|", j) = Segment(p.enum_values, "|", k)}
EnumOk(p) ==
    IsEnumProp(p) => BadEnumValues(p) = {} /\ RepeatedEnumValues(p) = {}
InReservedNamespace(sch, p) ==
    \/ HasPrefix(sch.prefix \o p.name, <<"v","e","n","d","o","r",".">>)
    \/ HasPrefix(sch.prefix \o p.name, <<"o","d","m",".">>)
NamespaceOk(sch, p) == sch.owner = "Platform" => ~InReservedNamespace(sch, p)
PropOk(sch, p) == NameOk(p) /\ EnumOk(p) /\ NamespaceOk(sch, p)
BadProps(sch) == {i \in 1..Len(sch.prop) : ~PropOk(sch, sch.prop[i])}

Collisions(sch) ==
    {j \in 1..Len(sch.prop) :
        \E i \in 1..(j - 1) :
           Flattened(sch.prop[i].name) = Flattened(sch.prop[j].name)}
OwnerModuleOk(sch) ==
    (sch.owner = "Platform") <=> (sch.module = kPlatformModule)

AcceptRule(sch) ==
    /\ HeaderOk(sch)
    /\ BadProps(sch) = {}
    /\ Collisions(sch) = {}
    /\ OwnerModuleOk(sch)

\* the message of the first check of ValidateProp the property fails
ExpectedPropErr(sch, p) ==
    IF ~NameOk(p) THEN ErrInvalidPropName(p.name)
    ELSE IF IsEnumProp(p) /\ BadEnumValues(p) # {}
    THEN ErrInvalidEnumValue(Segment(p.enum_values, "|", Least(BadEnumValues(p))),
                             p.name)
    ELSE IF IsEnumProp(p) /\ RepeatedEnumValues(p) # {}
    THEN ErrDuplicatedEnumValue(
             Segment(p.enum_values, "|", Least(RepeatedEnumValues(p))), p.name)
    ELSE IF ~NamespaceOk(sch, p) THEN ErrNamespace(p.name)
    ELSE EmptyErr

\* the message of the first check the schema fails, in the order: module
\* segment count, module segment validity, prefix, empty property list,
\* per-property checks in declaration order, duplicate flattened names,
\* owner/module rule
ExpectedErr(sch) ==
    IF ~ModuleCountOk(sch) THEN ErrInvalidModuleName(sch.module)
    ELSE IF BadModuleSegments(sch) # {}
    THEN ErrInvalidNameInModule(Segment(sch.module, ".", Least(BadModuleSegments(sch))))
    ELSE IF ~PrefixOk(sch) THEN ErrInvalidPrefix(sch.prefix)
    ELSE IF ~NonEmpty(sch) THEN ErrNoProperty
    ELSE IF BadProps(sch) # {}
    THEN ExpectedPropErr(sch, sch.prop[Least(BadProps(sch))])
    ELSE IF Collisions(sch) # {}
    THEN ErrDuplicatedPropName(sch.prop[Least(Collisions(sch))].name)
    ELSE IF sch.owner = "Platform" /\ sch.module # kPlatformModule
    THEN ErrPlatformModule
    ELSE IF sch.owner # "Platform" /\ sch.module = kPlatformModule
    THEN ErrVendorOdmModule
    ELSE EmptyErr

-----------------------------------------------------------------------------
(* Claims on the validator *)

\* C1: when ParseProps returns on a file that reads and parses, it returns true
\* if and only if the schema satisfies every rule: module of at least two valid
\* segments, prefix empty or a dotted identifier, at least one property, every
\* name a dotted identifier, enum values of Enum/EnumList properties valid and
\* pairwise distinct, no two names equal after '.' -> '_', no vendor./odm. key
\* for owner Platform, and owner Platform exactly for the Platform module.
C1_AcceptsExactlyTheValidSchemas ==
    (Returned /\ Parsed) => ((ret = "true") <=> AcceptRule(In))

C1_Witness ==
    /\ Returned /\ Parsed /\ ret = "true"
    /\ In.owner = "Platform"
    /\ Len(In.prop) = 2
    /\ \E i \in 1..2 : In.prop[i].type = "Enum"

\* C2: validation is fail-fast in a fixed order: the message left in err is the
\* message of the earliest failing check, and err is untouched on success.
C2_FirstFailingCheckWins ==
    (Returned /\ Parsed) => err = ExpectedErr(In)

\* owner Platform with an empty module, an invalid prefix and a bad property:
\* the module message alone
C2_Witness ==
    /\ Returned /\ Parsed
    /\ In.owner = "Platform" /\ In.module = <<>>
    /\ ~PrefixOk(In) /\ BadProps(In) # {}
    /\ err = ErrInvalidModuleName(<<>>)

\* C3: a schema that passes the module, prefix, non-empty and per-property
\* checks and has two names equal after flattening is rejected with
\* 'Duplicated prop name' naming the first property whose flattened name was
\* already seen.
C3_FlattenedDuplicatesRejected ==
    (Returned /\ Parsed /\ HeaderOk(In) /\ BadProps(In) = {} /\ Collisions(In) # {})
       => /\ ret = "false"
          /\ err = ErrDuplicatedPropName(In.prop[Least(Collisions(In))].name)

\* a.b and a_b: different names, one identifier
C3_Witness ==
    /\ Returned /\ Parsed
    /\ Len(In.prop) = 2
    /\ In.prop[1].name = <<"a",".","b">> /\ In.prop[2].name = <<"a","_","b">>
    /\ err = ErrDuplicatedPropName(<<"a","_","b">>)

C5_OwnerModuleRule ==
    (Returned /\ Parsed /\ HeaderOk(In) /\ BadProps(In) = {} /\ Collisions(In) = {})
       => /\ (ret = "true") <=> OwnerModuleOk(In)
          /\ (In.owner = "Platform" /\ In.module # kPlatformModule)
                => (ret = "false" /\ err = ErrPlatformModule)
          /\ (In.owner # "Platform" /\ In.module = kPlatformModule)
                => (ret = "false" /\ err = ErrVendorOdmModule)

C5_Witness ==
    /\ Returned /\ Parsed
    /\ In.owner = "Odm" /\ In.module = kPlatformModule
    /\ err = ErrVendorOdmModule

\* C6: an Enum or EnumList property (of valid name) whose enum_values is unset
\* or empty is rejected with 'Invalid enum value "" for prop "<name>"', and no
\* input yields 'Enum values are empty for prop "<name>"'.
C6_EmptyEnumValuesIsInvalidValue ==
    /\ (Returned /\ IsEnumProp(In.prop[1]) /\ In.prop[1].enum_values = <<>>)
          => (ret = "false" /\ err = ErrInvalidEnumValue(<<>>, In.prop[1].name))
    /\ err.msg # ErrEnumEmpty(<<>>).msg
    /\ \A i \in 1..Len(In.prop) :
          ValidateProp(In, In.prop[i]).err.msg # ErrEnumEmpty(<<>>).msg

C6_Witness ==
    /\ Returned
    /\ In.prop[1].type = "EnumList" /\ In.prop[1].enum_values = <<>>
    /\ err = ErrInvalidEnumValue(<<>>, In.prop[1].name)

\* C7: within one Enum/EnumList property every entry is checked for validity
\* before any duplicate check: with an invalid entry the message names the
\* first invalid entry, even after an earlier duplicate; with all entries
\* valid a repeated entry is rejected naming the first entry equal to an
\* earlier one.
C7_InvalidBeforeDuplicate ==
    (Returned /\ IsEnumProp(In.prop[1]))
       => LET p == In.prop[1]
              bad == BadEnumValues(p)
              rep == RepeatedEnumValues(p)
          IN IF bad # {}
             THEN /\ ret = "false"
                  /\ err = ErrInvalidEnumValue(
                              Segment(p.enum_values, "|", Least(bad)), p.name)
             ELSE IF rep # {}
             THEN /\ ret = "false"
                  /\ err = ErrDuplicatedEnumValue(
                              Segment(p.enum_values, "|", Least(rep)), p.name)
             ELSE ret = "true"

\* a|a|! : the duplicate comes first in the list, the invalid entry is reported
C7_Witness ==
    /\ Returned
    /\ In.prop[1].type = "Enum"
    /\ In.prop[1].enum_values = <<"a","|","a","|","!">>
    /\ err = ErrInvalidEnumValue(<<"!">>, In.prop[1].name)

\* C8: IsCorrectIdentifier(s) iff s is non-empty, starts with a letter or '_'
\* and continues with letters, digits and '_'; IsCorrectPropertyName(s) iff s
\* is non-empty and each '.'-separated segment is such an identifier, so a
\* leading, trailing or doubled '.' makes s invalid; a property of invalid name
\* is rejected with 'Invalid prop name "<name>"'.
C8_IdentifierRules ==
    LET s == In.prop[1].name
        misplaced_dot ==
            \/ s = <<>>
            \/ s[1] = "."
            \/ s[Len(s)] = "."
            \/ \E i \in 1..(Len(s) - 1) : s[i] = "." /\ s[i + 1] = "."
    IN /\ IsCorrectIdentifier(s) <=> BareIdentifier(s)
       /\ IsCorrectPropertyName(s) <=> DottedIdentifier(s)
       /\ misplaced_dot => ~IsCorrectPropertyName(s)
       /\ ~DottedIdentifier(s)
             => ValidateProp(In, In.prop[1]) = Fail(ErrInvalidPropName(s))
       /\ Returned
             => IF DottedIdentifier(s)
                THEN ret = "true"
                ELSE ret = "false" /\ err = ErrInvalidPropName(s)

C8_Witness ==
    /\ Returned
    /\ In.prop[1].name = <<"a",".",".","a">>
    /\ ret = "false"
    /\ err = ErrInvalidPropName(<<"a",".",".","a">>)

\* C9: after ParseProps returns success every property has readonly set: true
\* where it was unset, its own value where it was set, and nothing else of the
\* schema differs from what was parsed; after a failure no default is filled in.
C9_ReadonlyDefault ==
    Returned =>
       IF ret = "true"
       THEN /\ props.owner = In.owner
            /\ props.module = In.module
            /\ props.prefix = In.prefix
            /\ Len(props.prop) = Len(In.prop)
            /\ \A i \in 1..Len(In.prop) :
                  /\ props.prop[i].has_readonly
                  /\ props.prop[i].readonly =
                        (IF In.prop[i].has_readonly THEN In.prop[i].readonly ELSE TRUE)
                  /\ props.prop[i].name = In.prop[i].name
                  /\ props.prop[i].type = In.prop[i].type
                  /\ props.prop[i].enum_values = In.prop[i].enum_values
                  /\ props.prop[i].scope = In.prop[i].scope
       ELSE props = (IF file.readable THEN In ELSE EmptyProps)

\* one property that left readonly unset, one that set it to false
C9_Witness ==
    /\ Returned /\ ret = "true"
    /\ \E i, j \in 1..Len(In.prop) :
          /\ ~In.prop[i].has_readonly /\ props.prop[i].readonly
          /\ In.prop[j].has_readonly /\ ~In.prop[j].readonly /\ ~props.prop[j].readonly

-----------------------------------------------------------------------------
(* The runs of GenerateCppFiles and GenerateJavaLibrary *)

pVendorInt == Prop(sAB, "Integer", sEmpty, FALSE, FALSE, "Public")
pString == Prop(sC, "String", sEmpty, TRUE, FALSE, "Public")
pEnum == Prop(sE, "Enum", sEnumAB, TRUE, FALSE, "System")
pEnumList == Prop(sA_B, "EnumList", sEnumAB, TRUE, TRUE, "Internal")

DriverSchemas ==
    {Schema("Vendor", sAB, sEmpty, <<pVendorInt, pString>>),
     Schema("Platform", kPlatformModule, sOdm, <<pEnum, pEnumList>>),
     Schema("Vendor", sAB, sEmpty, <<>>),
     Schema("Platform", sAB, sADot, <<pVendorInt, pEnumList>>)}

DriverFiles ==
    {GoodFile(sch) : sch \in DriverSchemas}
    \cup {BadFile(r, Schema("Vendor", sAB, sEmpty, <<pVendorInt>>)) : r \in BOOLEAN}

dOut == <<"o">>
dSub == <<"h">>
sF == <<"f">>

DriverArgs ==
    {[basename |-> sF, first_dir |-> d1, second_dir |-> d2] :
        d1 \in {<<dOut>>, <<dOut, dSub>>}, d2 \in {<<dOut>>, <<dOut, dSub>>}}

\* the file system at the start: nothing, the directory o, or a regular file
\* named o; and the directories that refuse new entries
FileSystems ==
    {[dirs |-> {}, files |-> {}],
     [dirs |-> {<<dOut>>}, files |-> {}],
     [dirs |-> {}, files |-> {[path |-> <<dOut>>, content |-> <<>>]}]}

Init ==
    \E t \in {"cpp", "java"}, f \in DriverFiles, a \in DriverArgs,
       fs \in FileSystems, dn \in SUBSET {<<>>, <<dOut>>} :
       InitCall(t, f, a, fs.dirs, fs.files, dn)

Next ==
    \/ CppParse
    \/ CppGenerateHeader
    \/ CppGenerateSource
    \/ CppHeaderDir
    \/ CppSourceDir
    \/ CppWriteHeader
    \/ CppWriteSource
    \/ JavaParse
    \/ JavaGenerateClass
    \/ JavaGenerateJni
    \/ JavaPackageDirStep
    \/ JavaJniDirStep
    \/ JavaWriteClass
    \/ JavaWriteJni

Spec == Init /\ [][Next]_vars

-----------------------------------------------------------------------------
(* Claims on the drivers *)

StepOrder == <<"parse", "gen1", "gen2", "dir1", "dir2", "write1", "write2">>

LastStep == trace[Len(trace)]
HasRun(step) == \E i \in 1..Len(trace) : trace[i] = step

FirstDir == IF target = "cpp" THEN args.first_dir ELSE JavaPackageDir
SecondDir == args.second_dir
FirstPath == IF target = "cpp" THEN HeaderPath ELSE JavaOutputFile
SecondPath == IF target = "cpp" THEN SourcePath ELSE JniOutputFile

\* the message of each step that can fail
StepErr(step) ==
    CASE step = "parse" ->
            IF ~file.readable THEN ErrReadingFile
            ELSE IF ~file.parses THEN ErrParsingFile
            ELSE ExpectedErr(In)
      [] step = "dir1" -> ErrCreatingDirectory(FirstDir)
      [] step = "dir2" -> ErrCreatingDirectory(SecondDir)
      [] step = "write1" ->
            IF target = "cpp" THEN ErrWritingHeader(FirstPath)
            ELSE ErrWritingJavaClass(FirstPath)
      [] step = "write2" ->
            IF target = "cpp" THEN ErrWritingSource(SecondPath)
            ELSE ErrWritingJniLibrary(SecondPath)
      [] OTHER -> EmptyErr

\* the step has run and did not do its work
StepFailed(step) ==
    /\ HasRun(step)
    /\ CASE step = "parse" -> ~(Parsed /\ AcceptRule(In))
         [] step = "dir1" -> ~IsDirectory(FirstDir)
         [] step = "dir2" -> ~IsDirectory(SecondDir)
         [] step = "write1" ->
               [path |-> FirstPath, content |-> first_result] \notin files
         [] step = "write2" ->
               [path |-> SecondPath, content |-> second_result] \notin files
         [] OTHER -> FALSE

\* C10: GenerateCppFiles and GenerateJavaLibrary run their steps in the order
\* parse+validate, generate first artifact, generate second artifact, ensure
\* first directory, ensure second directory, write first file, write second
\* file; the first failing step makes the function return false with that
\* step's message in err and is the last step that runs; a failed validation
\* leaves the directories and files as they were; the function returns true
\* only after all seven steps.
C10_StepsInOrderFirstFailureReturns ==
    /\ Len(trace) <= Len(StepOrder)
    /\ \A i \in 1..Len(trace) : trace[i] = StepOrder[i]
    /\ \A i \in 1..Len(StepOrder) :
          StepFailed(StepOrder[i])
             => /\ pc = "done" /\ ret = "false"
                /\ LastStep = StepOrder[i]
                /\ err = StepErr(StepOrder[i])
    /\ ret = "false"
          => /\ pc = "done"
             /\ StepFailed(LastStep)
             /\ err = StepErr(LastStep)
    /\ ret = "true" => (pc = "done" /\ trace = StepOrder /\ err = EmptyErr)
    /\ ret = "none" => (pc # "done" /\ err = EmptyErr)
    /\ StepFailed("parse") => (dirs = fs0.dirs /\ files = fs0.files)

\* a run that parsed and generated, created the first directory and failed on
\* the second
C10_Witness ==
    /\ pc = "done" /\ ret = "false"
    /\ trace = <<"parse", "gen1", "gen2", "dir1", "dir2">>
    /\ dirs # fs0.dirs
    /\ err = ErrCreatingDirectory(args.second_dir)

\* the file at path holds content and did not before the call
WrittenByRun(path, content) ==
    /\ [path |-> path, content |-> content] \in files
    /\ [path |-> path, content |-> content] \notin fs0.files

FirstWritten == HasRun("write1") /\ WrittenByRun(FirstPath, first_result)
SecondWritten == HasRun("write2") /\ WrittenByRun(SecondPath, second_result)

\* C11 as stated: whenever GenerateCppFiles or GenerateJavaLibrary has returned
\* false, neither of its two output files has been written by that run.
C11_NoFileWrittenOnFailure ==
    ret = "false" => (~FirstWritten /\ ~SecondWritten)

\* C11, amended: whenever the function has returned false its second output
\* file has not been written by that run, and its first output file has been
\* written exactly when the failing step is the write of the second file; a
\* failure at any earlier step leaves neither written.  It returns true only
\* with both files written.
C11_FailureLeavesAtMostTheFirstFile ==
    /\ ret = "false"
          => /\ ~SecondWritten
             /\ FirstWritten <=> (LastStep = "write2")
             /\ LastStep # "write2" => files \subseteq fs0.files
    /\ ret = "true" => (FirstWritten /\ SecondWritten)

\* the header is on disk, the source is not, and the function returned false
C11_Witness ==
    /\ pc = "done" /\ ret = "false"
    /\ LastStep = "write2"
    /\ FirstWritten /\ ~SecondWritten
    /\ err = StepErr("write2")

-----------------------------------------------------------------------------
(* Generation runs of the three targets on a pool of schemas *)

MaxGenProps == 2    \* most properties in a schema of the generation pool

pBoolList == Prop(<<"d">>, "BooleanList", sEmpty, TRUE, FALSE, "Public")

\* a property whose message has deprecated set; CppGen.cpp and JavaGen.cpp
\* read no such field
pDeprecated ==
    Prop(<<"g">>, "Long", sEmpty, TRUE, FALSE, "Public") @@ ("deprecated" :> TRUE)

\* a property of a type of the closed set that CppGen.cpp and JavaGen.cpp
\* have no case for
pUInt == Prop(<<"u">>, "UInt", sEmpty, TRUE, TRUE, "Public")

GenProps == {pVendorInt, pString, pEnum, pEnumList, pBoolList, pDeprecated, pUInt}

GenSchemas ==
    {Schema(om[1], om[2], p, ps) :
        om \in {<<"Vendor", sAB>>, <<"Platform", kPlatformModule>>},
        p \in {sEmpty, sOdm, sADot},
        ps \in UNION {[1..k -> GenProps] : k \in 1..MaxGenProps}}

sL == <<"l">>
sType == <<"t","y","p","e">>
sEnumAUpperB == <<"a","|","B">>

\* api_name, prop_name, type, enum_values, access, scope, legacy_prop_name, deprecated
RustProps ==
    {RustProp(<<"x">>, <<"a",".","x">>, "Integer", sEmpty,
              "ReadWrite", "Public", sEmpty, FALSE),
     RustProp(<<"t","_","e">>, <<"a",".","e">>, "Enum", sEnumAUpperB,
              "Readonly", "System", sEmpty, TRUE),
     RustProp(sType, <<"a",".","t">>, "String", sEmpty,
              "Writeonce", "Internal", sL, FALSE),
     RustProp(<<"y","-","Z">>, <<"y","-","Z">>, "IntegerList", sEmpty,
              "ReadWrite", "Public", sEmpty, TRUE),
     RustProp(<<"e","l">>, <<"e","l">>, "EnumList", sEnumAB,
              "Readonly", "Internal", sL, FALSE),
     RustProp(<<"b">>, <<"r","o",".","b">>, "Boolean", sEmpty,
              "ReadWrite", "System", sL, FALSE),
     RustProp(<<"u">>, <<"u">>, "ULongList", sEmpty,
              "ReadWrite", "Public", sEmpty, FALSE),
     RustProp(<<"s","e","t","_","x">>, <<"a",".","s">>, "Boolean", sEmpty,
              "Readonly", "Public", sEmpty, FALSE)}

\* schemas of pairwise different api_name
RustSchemas ==
    {Schema("Platform", kPlatformModule, sEmpty, ps) :
        ps \in {q \in UNION {[1..k -> RustProps] : k \in 1..MaxGenProps} :
                   \A i, j \in 1..Len(q) : i # j => q[i].api_name # q[j].api_name}}

GenArgs == [basename |-> sF, first_dir |-> <<dOut>>, second_dir |-> <<dOut>>]

InitGen ==
    \/ \E t \in {"cpp", "java"}, sch \in GenSchemas :
          InitCall(t, GoodFile(sch), GenArgs, {<<dOut>>}, {}, {})
    \/ \E sch \in RustSchemas, sc \in {"Public", "System", "Internal"} :
       \E f \in {GoodFile(sch), BadFile(TRUE, sch), BadFile(FALSE, sch)} :
          InitRun("rust", f, GenArgs, {<<dOut>>}, {}, {}, sc, {}, {})

NextGen ==
    \/ CppParse
    \/ CppGenerateHeader
    \/ CppGenerateSource
    \/ CppHeaderDir
    \/ CppSourceDir
    \/ CppWriteHeader
    \/ CppWriteSource
    \/ JavaParse
    \/ JavaGenerateClass
    \/ JavaGenerateJni
    \/ JavaPackageDirStep
    \/ JavaJniDirStep
    \/ JavaWriteClass
    \/ JavaWriteJni
    \/ RustParse
    \/ RustGenerate
    \/ RustWriteLib

SpecGen == InitGen /\ [][NextGen]_vars

-----------------------------------------------------------------------------
(* Runs of the generated accessors: a schema of one property is generated,  *)
(* the environment sets properties, the getters are called                  *)

sEnumLowerUpperA == <<"a","|","A">>

RunProps ==
    {Prop(sA, t, sEmpty, TRUE, ro, "Public") :
        t \in {"Boolean", "Integer", "Long", "String", "BooleanList",
               "IntegerList", "StringList"},
        ro \in BOOLEAN}
    \cup {Prop(sA, t, ev, TRUE, ro, "Public") :
             t \in {"Enum", "EnumList"}, ev \in {sEnumAB, sEnumLowerUpperA},
             ro \in BOOLEAN}

RustRunProps ==
    {RustProp(sA, <<"p">>, t, sEmpty, ac, "Public", lg, FALSE) :
        t \in {"Boolean", "Integer", "Long", "String"},
        ac \in {"Readonly", "ReadWrite"}, lg \in {sEmpty, sL}}
    \cup {RustProp(sA, <<"p">>, "Enum", ev, ac, "Public", lg, FALSE) :
             ev \in {sEnumAB, sEnumLowerUpperA},
             ac \in {"Readonly", "ReadWrite"}, lg \in {sEmpty, sL}}

InitAccessors ==
    \/ \E t \in {"cpp", "java"}, p \in RunProps :
          InitCall(t, GoodFile(Schema("Platform", kPlatformModule, sEmpty, <<p>>)),
                   GenArgs, {<<dOut>>}, {}, {})
    \/ \E p \in RustRunProps :
          InitCall("rust", GoodFile(Schema("Platform", kPlatformModule, sEmpty, <<p>>)),
                   GenArgs, {<<dOut>>}, {}, {})

NextAccessors ==
    \/ NextGen
    \/ Setprop
    \/ FetchFails
    \/ CppGet
    \/ CppSet
    \/ JavaGet
    \/ RustGet

SpecAccessors == InitAccessors /\ [][NextAccessors]_vars

-----------------------------------------------------------------------------
(* The generator run a second time on the same input and options, on the    *)
(* file system the first run left                                           *)

\* the tool is started again after a run that succeeded on an empty output
\* directory: its locals are fresh, the files of the first run exist
RunAgain ==
    /\ pc = "done" /\ ret = "true"
    /\ fs0.files = {}
    /\ pc' = "start"
    /\ ret' = "none"
    /\ props' = EmptyProps
    /\ first_result' = <<>>
    /\ second_result' = <<>>
    /\ fs0' = [dirs |-> dirs, files |-> files]
    /\ trace' = <<>>
    /\ UNCHANGED <<target, file, err, dirs, files, denied, args, scope, runtime>>

NextTwice ==
    \/ NextGen
    \/ RunAgain

SpecTwice == InitGen /\ [][NextTwice]_vars

-----------------------------------------------------------------------------
(* Claims on the generated accessors *)

\* both artifacts of the C++ or Java run, or the Rust module, are generated
Generated ==
    IF target = "rust" THEN HasRun("gen1") ELSE HasRun("gen2")

\* the items of the given kinds, in the order of the artifact
Only(art, kinds) ==
    LET Wanted(it) == it.kind \in kinds
    IN SelectSeq(art, Wanted)

\* the key the Rust constant of that name stands for
ConstKey(art, name) ==
    LET k == CHOOSE i \in 1..Len(art) : art[i].kind = "const" /\ art[i].id = name
    IN art[k].key

Tier(sc) == IF sc = "Public" THEN 1 ELSE IF sc = "System" THEN 2 ELSE 3

\* the properties GenerateRustSource is to emit at the tier sc
EmittedAt(sc) ==
    LET Visible(p) == Tier(p.scope) <= Tier(sc)
    IN SelectSeq(props.prop, Visible)

Writable(p) ==
    IF target = "rust" THEN p.access \in {"ReadWrite", "Writeonce"}
    ELSE p.readonly = FALSE

\* what identifies the property an accessor belongs to: its flattened name
\* in C++ and Java, the key of its constant in Rust
OwnerMark(p) == IF target = "rust" THEN p.prop_name ELSE Flattened(p.name)

\* the getters and setters of the artifact in order, each with its mark
AccessorBlocks(art) ==
    LET acc == Only(art, {"getter", "setter"})
    IN [k \in 1..Len(acc) |->
           <<acc[k].kind,
             IF target = "rust" THEN ConstKey(art, acc[k].key) ELSE acc[k].id>>]

\* one getter per property, then its setter if it is writable, properties in
\* declaration order
ExpectedBlocks(ps) ==
    LET Block(i) ==
            <<<<"getter", OwnerMark(ps[i])>>>>
            \o (IF Writable(ps[i]) THEN <<<<"setter", OwnerMark(ps[i])>>>> ELSE <<>>)
        RECURSIVE Upto(_)
        Upto(n) == IF n = 0 THEN <<>> ELSE Upto(n - 1) \o Block(n)
    IN Upto(Len(ps))

\* C12: in every target's accessor artifact (C++ header and source, Java
\* class, Rust module) each emitted property yields exactly one getter, and a
\* setter if and only if it is not read-only (C++/Java: readonly == false;
\* Rust: access ReadWrite or Writeonce); the accessor blocks are in the order
\* the properties are declared in.
C12_OneGetterAndSetterIffWritable ==
    Generated =>
       CASE target = "cpp" ->
               /\ AccessorBlocks(first_result) = ExpectedBlocks(props.prop)
               /\ AccessorBlocks(second_result) = ExpectedBlocks(props.prop)
         [] target = "java" ->
               AccessorBlocks(first_result) = ExpectedBlocks(props.prop)
         [] target = "rust" ->
               AccessorBlocks(first_result) = ExpectedBlocks(EmittedAt(scope))

\* a read-only property and a writable one: three accessors
C12_Witness ==
    /\ Generated
    /\ target = "cpp"
    /\ Len(props.prop) = 2
    /\ props.prop[1].readonly /\ ~props.prop[2].readonly
    /\ Len(Only(second_result, {"getter"})) = 2
    /\ Len(Only(second_result, {"setter"})) = 1

\* the keys the accessors of the kinds pass to the property store, in order
KeysPassed(art, kinds) ==
    LET acc == Only(art, kinds)
    IN [k \in 1..Len(acc) |-> acc[k].key]

\* the keys one getter per property and one setter per writable property are
\* to pass, each property's key computed by Key
KeysExpected(ps, Key(_)) ==
    LET Block(i) ==
            <<Key(ps[i])>> \o (IF ps[i].readonly THEN <<>> ELSE <<Key(ps[i])>>)
        RECURSIVE Upto(_)
        Upto(n) == IF n = 0 THEN <<>> ELSE Upto(n - 1) \o Block(n)
    IN Upto(Len(ps))

\* "ro." iff read-only, the schema's prefix and the name, nothing in between
PlainKey(p) == (IF p.readonly THEN <<"r","o",".">> ELSE <<>>) \o props.prefix \o p.name

\* the same with a "." after the leading part when that part is not empty
\* and does not end in "."
DottedKey(p) ==
    LET lead == (IF p.readonly THEN <<"r","o",".">> ELSE <<>>) \o props.prefix
    IN IF lead = <<>> \/ lead[Len(lead)] = "."
       THEN lead \o p.name
       ELSE lead \o <<".">> \o p.name

\* the artifact whose accessors name the key: the C++ source, the JNI library
KeyedKinds == IF target = "cpp" THEN {"getter", "setter"} ELSE {"_get", "_set"}

GetterCalled == out.kind \in {"absent", "present"} /\ target \in {"cpp", "java"}

\* the key the last call read is not set in the property store
KeyUnset == \A e \in store : e.key # reads[1]

\* the raw string under the key the last call read
RawRead == (CHOOSE e \in store : e.key = reads[1]).value

\* a string no number is written as: it holds a letter or a comma
NoNumber(s) == \E i \in 1..Len(s) : s[i] \notin Digit \cup {"-", "+"}

\* C14: in the C++ and Java targets, for every property type, the generated
\* getter returns an absent result whenever the effective key is not set in
\* the property store, and whenever the stored raw string fails to parse as
\* the property's type; it never returns a present value for an unset key.
C14_GetterAbsentWhenUnsetOrUnparsable ==
    GetterCalled =>
       /\ KeyUnset => out.kind = "absent"
       /\ (~KeyUnset /\ props.prop[1].type \in {"Integer", "Long"} /\ NoNumber(RawRead))
             => out.kind = "absent"

\* the getter of a String property of the Java class, called with its key
\* unset, has returned a present value: the empty string
C14_JavaStringPresentWhenUnset ==
    /\ GetterCalled /\ target = "java"
    /\ props.prop[1].type = "String"
    /\ KeyUnset
    /\ out.kind = "present" /\ out.value = <<<<>>>>

\* the C++ getters are absent on an unset key, whatever the type
C14_CppAbsentWhenUnset ==
    (GetterCalled /\ target = "cpp" /\ KeyUnset) => out.kind = "absent"

\* the getter of a Rust property that has a legacy name has been called
LegacyGetterCalled ==
    /\ target = "rust" /\ out.kind # "none"
    /\ props.prop[1].legacy_prop_name # <<>>

Primary == props.prop[1].prop_name
Legacy == props.prop[1].legacy_prop_name

IsSet(key) == \E e \in store : e.key = key
RawOf(key) == (CHOOSE e \in store : e.key = key).value

\* the primary attempt certainly errs: the fetch fails, or a number is
\* wanted and the stored string is none
PrimaryErrs ==
    \/ Primary \in broken
    \/ /\ IsSet(Primary)
       /\ props.prop[1].type \in {"Integer", "Long"}
       /\ NoNumber(RawOf(Primary))

\* the primary attempt certainly does not err: the fetch works and the key
\* is unset, or any string will do
PrimaryOk ==
    /\ Primary \notin broken
    /\ ~IsSet(Primary) \/ props.prop[1].type = "String"

\* C15: for a property with a legacy_prop_name the generated Rust getter
\* reads the primary key first; if that attempt ends in a fetch error or a
\* parse error it reads the legacy key and returns the legacy attempt's
\* result (value, absent, or the legacy attempt's own error), the primary
\* error discarded; a primary attempt without error is returned as it is.
C15_LegacyReadAfterPrimaryError ==
    LegacyGetterCalled =>
       /\ reads[1] = Primary
       /\ Len(reads) = 2 => reads[2] = Legacy
       /\ PrimaryErrs => Len(reads) = 2
       /\ PrimaryOk => Len(reads) = 1
       /\ Len(reads) = 2 =>
             /\ Legacy \in broken <=> out.kind = "FetchError"
             /\ (Legacy \notin broken /\ ~IsSet(Legacy)) <=> out.kind = "absent"
             /\ (Legacy \notin broken /\ IsSet(Legacy))
                   <=> out.kind \in {"present", "ParseError"}
             /\ (Legacy \notin broken /\ IsSet(Legacy)
                   /\ props.prop[1].type = "String")
                   => out.value = <<RawOf(Legacy)>>

\* the fetch of the primary key fails, the legacy key holds a value: the
\* getter returns the legacy value
C15_Witness ==
    /\ LegacyGetterCalled
    /\ Primary \in broken
    /\ IsSet(Legacy) /\ Legacy \notin broken
    /\ reads = <<Primary, Legacy>>
    /\ out.kind = "present"

\* the keys of the constants of a Rust module, one per property it holds
EmittedKeys(art) ==
    LET consts == Only(art, {"const"})
    IN [k \in 1..Len(consts) |-> consts[k].key]

KeySet(art) == {EmittedKeys(art)[k] : k \in 1..Len(EmittedKeys(art))}

Tiers == {"Public", "System", "Internal"}

\* C16: GenerateRustSource(props, T) emits exactly the properties whose scope
\* is <= T in the order Public < System < Internal, as a subsequence of the
\* declaration order; hence for tiers A <= B the properties emitted at A are
\* a subset of those emitted at B, and tier Internal emits every property.
C16_ScopeFilterIsMonotone ==
    (target = "rust" /\ Generated) =>
       /\ EmittedKeys(first_result)
             = [k \in 1..Len(EmittedAt(scope)) |-> EmittedAt(scope)[k].prop_name]
       /\ \A A, B \in Tiers :
             Tier(A) <= Tier(B) =>
                KeySet(GenerateRustSource(props, A))
                   \subseteq KeySet(GenerateRustSource(props, B))
       /\ EmittedKeys(GenerateRustSource(props, "Internal"))
             = [k \in 1..Len(props.prop) |-> props.prop[k].prop_name]

\* at tier System the Internal property of two is left out, the other kept
C16_Witness ==
    /\ target = "rust" /\ Generated
    /\ scope = "System"
    /\ Len(props.prop) = 2
    /\ props.prop[1].scope = "Internal" /\ props.prop[2].scope = "Public"
    /\ EmittedKeys(first_result) = <<props.prop[2].prop_name>>

\* the accessors of an enum property are generated
EnumGenerated ==
    /\ pc = "done" /\ ret = "true"
    /\ props.prop[1].type = "Enum"

\* the declared tokens of the property, in order
Tokens == Split(props.prop[1].enum_values, "|")
TokenSet == {Tokens[i] : i \in 1..Len(Tokens)}

\* the getter item of the accessor artifact
TheGetter(art) == art[CHOOSE k \in 1..Len(art) : art[k].kind = "getter"]

\* the generated enum parser of the target applied to a raw string
EnumParse(s) ==
    CASE target = "cpp" ->
            TryParse(second_result, TheGetter(second_result).type, s)
      [] target = "java" ->
            JavaTryParse(first_result, TheGetter(first_result).values, s)
      [] target = "rust" ->
            RustParser(first_result, TheGetter(first_result), s)

\* a value exactly for the declared tokens, failure for every other string
ParsesExactlyTokens ==
    \A s \in Raws \cup TokenSet : (Len(EnumParse(s)) = 1) <=> (s \in TokenSet)

\* distinct tokens, distinct members
TokensKeptApart ==
    \A s, t \in TokenSet : s # t => EnumParse(s) # EnumParse(t)

\* C17: for every Enum/EnumList property of an accepted schema the generated
\* enum parser (C++ DoParse over <id>_list with strcmp, Rust from_str match,
\* Java Enum.valueOf) returns a value exactly when the raw string is
\* character for character one of the declared enum_values tokens, maps
\* distinct tokens to distinct enum members, and fails for every other string.
C17_EnumParserExactAndInjective ==
    EnumGenerated => (ParsesExactlyTokens /\ TokensKeptApart)

\* the tokens "a" and "A" of a Rust enum property both parse to the member A
C17_RustTokensShareMember ==
    /\ EnumGenerated /\ target = "rust"
    /\ Tokens = <<<<"a">>, <<"A">>>>
    /\ EnumParse(<<"a">>) = <<<<"A">>>>
    /\ EnumParse(<<"A">>) = <<<<"A">>>>

\* the C++ and Java parsers keep the claim; the Rust parser accepts exactly
\* the tokens
C17_ExactEverywhereInjectiveInCppJava ==
    EnumGenerated =>
       /\ ParsesExactlyTokens
       /\ target \in {"cpp", "java"} => TokensKeptApart

\* the generated enum formatter of the target applied to a member; in Java
\* it is toString() of the enum constant, which is the name of the constant
EnumFormat(v) ==
    CASE target = "cpp" ->
            FormatValue(second_result, TheGetter(second_result).type, v)
      [] target = "java" -> <<v>>
      [] target = "rust" ->
            Display(first_result, TheGetter(first_result).type.arg, v)

\* a formatter is generated for the enum type: always in Java and Rust, with
\* the FormatValue item in C++
FormatterGenerated ==
    /\ EnumGenerated
    /\ target = "cpp" => \E k \in 1..Len(second_result) :
                            second_result[k].kind = "FormatValue"

\* the members of the generated enum type, in the order of the tokens
Members == [i \in 1..Len(Tokens) |-> EnumParse(Tokens[i])[1]]

\* each member formats to its declared token, and parses back to itself
FormatInvertsParse ==
    \A i \in 1..Len(Tokens) :
       /\ EnumFormat(Members[i]) = <<Tokens[i]>>
       /\ EnumParse(EnumFormat(Members[i])[1]) = <<Members[i]>>

\* C18: for every Enum/EnumList property of an accepted schema the generated
\* enum formatter is the inverse of the enum parser: each enum member, taken
\* in enum_values declaration order, formats to its declared token and
\* parse(format(v)) = v; the fatal branch for an unmapped value is
\* unreachable for every member of the generated enum type.
C18_EnumFormatterInvertsParser ==
    FormatterGenerated =>
       /\ FormatInvertsParse
       /\ \A i \in 1..Len(Tokens) : Len(EnumFormat(Members[i])) = 1

\* the member A of the Rust enum of "a|A" formats to "a", the token "A" of
\* the second declaration is never written
C18_RustMemberFormatsToFirstToken ==
    /\ FormatterGenerated /\ target = "rust"
    /\ Tokens = <<<<"a">>, <<"A">>>>
    /\ Members[2] = <<"A">>
    /\ EnumFormat(Members[2]) = <<<<"a">>>>

\* the C++ and Java formatters invert their parsers
C18_CppJavaFormatterInvertsParser ==
    (FormatterGenerated /\ target \in {"cpp", "java"}) =>
       /\ FormatInvertsParse
       /\ \A i \in 1..Len(Tokens) : Len(EnumFormat(Members[i])) = 1

\* the names of the enum types an artifact declares, in order
EnumTypeNames(art) ==
    LET enums == Only(art, {"enum class", "enum"})
    IN [k \in 1..Len(enums) |-> enums[k].id]

\* the words between the '_' of an identifier, each with its first letter in
\* upper case, joined
CamelCase(id) ==
    LET RECURSIVE Words(_, _)
        Words(i, fresh) ==
            IF i > Len(id) THEN <<>>
            ELSE IF id[i] = "_" THEN Words(i + 1, TRUE)
            ELSE <<IF fresh THEN toupper(id[i]) ELSE id[i]>> \o Words(i + 1, FALSE)
    IN Words(1, TRUE)

\* the identifier of a property: its name with '.' (and '-' in Rust) as '_'
FlatId(p) ==
    IF target = "rust"
    THEN [i \in 1..Len(p.api_name) |->
             IF p.api_name[i] \in {".", "-"} THEN "_" ELSE p.api_name[i]]
    ELSE Flattened(p.name)

\* the enum properties an artifact is generated for, in declaration order
EnumProps ==
    LET IsEnum(p) == p.type \in {"Enum", "EnumList"}
    IN SelectSeq(IF target = "rust" THEN EmittedAt(scope) ELSE props.prop, IsEnum)

\* C19: in every target (C++, Java, Rust) the enum type synthesized for an
\* Enum/EnumList property is named CamelCase(flattened property identifier)
\* followed by "Values".
C19_EnumTypeIsCamelCaseValues ==
    Generated =>
       EnumTypeNames(first_result)
          = [k \in 1..Len(EnumProps) |->
                CamelCase(FlatId(EnumProps[k])) \o <<"V","a","l","u","e","s">>]

\* C19 (amended): the Rust enum type is named CamelCase(identifier) followed
\* by "Values"; the C++ and Java enum types are named the flattened
\* identifier followed by "_values".
C19_EnumTypeNamePerTarget ==
    Generated =>
       EnumTypeNames(first_result)
          = [k \in 1..Len(EnumProps) |->
                IF target = "rust"
                THEN CamelCase(FlatId(EnumProps[k])) \o <<"V","a","l","u","e","s">>
                ELSE FlatId(EnumProps[k]) \o <<"_","v","a","l","u","e","s">>]

\* the C++ header of a schema with the EnumList property a_b declares the
\* enum class a_b_values
C19_Witness ==
    /\ Generated /\ target = "cpp"
    /\ \E k \in 1..Len(EnumProps) :
          /\ EnumProps[k].name = <<"a","_","b">>
          /\ EnumTypeNames(first_result)[k]
                = <<"a","_","b","_","v","a","l","u","e","s">>

\* the name an item of the Java class or of the JNI library declares
NameOf(it) ==
    CASE it.kind = "native_get" -> <<"n","a","t","i","v","e","_">> \o it.id \o <<"_","g","e","t">>
      [] it.kind = "native_set" -> <<"n","a","t","i","v","e","_">> \o it.id \o <<"_","s","e","t">>
      [] it.kind = "_get" -> it.id \o <<"_","g","e","t">>
      [] it.kind = "_set" -> it.id \o <<"_","s","e","t">>

NamesOf(art, kinds) ==
    LET its == Only(art, kinds)
    IN [k \in 1..Len(its) |-> NameOf(its[k])]

\* <lead><flattened name>_get for every property and <lead><flattened
\* name>_set for the properties that are not read-only, in declaration order
PairNames(lead) ==
    LET Block(p) ==
            <<lead \o Flattened(p.name) \o <<"_","g","e","t">>>>
            \o (IF p.readonly THEN <<>>
                ELSE <<lead \o Flattened(p.name) \o <<"_","s","e","t">>>>)
        RECURSIVE Upto(_)
        Upto(n) == IF n = 0 THEN <<>> ELSE Upto(n - 1) \o Block(props.prop[n])
    IN Upto(Len(props.prop))

NativeLead == <<"n","a","t","i","v","e","_">>

\* C20: for the Java target the native methods declared in the Java class,
\* the JNI functions defined in the bridge artifact and the entries of the
\* JNI registration table agree: each holds native_<flattenedName>_get for
\* every property and native_<flattenedName>_set exactly for the properties
\* that are not read-only, in declaration order, and nothing else.
C20_NativeNamesAgreeInAllThree ==
    (Generated /\ target = "java") =>
       /\ NamesOf(first_result, {"native_get", "native_set"}) = PairNames(NativeLead)
       /\ NamesOf(second_result, {"_get", "_set"}) = PairNames(NativeLead)
       /\ NamesOf(second_result, {"native_get", "native_set"}) = PairNames(NativeLead)

\* C20 (amended): the native methods of the Java class and the entries of
\* the registration table are named native_<flattenedName>_get and _set,
\* the JNI functions the entries bind are named <flattenedName>_get and
\* _set; each of the three holds one get per property and one set exactly
\* per property that is not read-only, in declaration order, nothing else.
C20_NativeNamesAgreeFunctionsUnprefixed ==
    (Generated /\ target = "java") =>
       /\ NamesOf(first_result, {"native_get", "native_set"}) = PairNames(NativeLead)
       /\ NamesOf(second_result, {"native_get", "native_set"}) = PairNames(NativeLead)
       /\ NamesOf(second_result, {"_get", "_set"}) = PairNames(<<>>)

\* a read-only property after a writable one: three names in each artifact
C20_Witness ==
    /\ Generated /\ target = "java"
    /\ Len(props.prop) = 2
    /\ ~props.prop[1].readonly /\ props.prop[2].readonly
    /\ Len(NamesOf(second_result, {"native_get", "native_set"})) = 3
    /\ NamesOf(second_result, {"_get", "_set"})[2]
          = Flattened(props.prop[1].name) \o <<"_","s","e","t">>

\* the property has its deprecated flag set
IsDeprecated(p) == "deprecated" \in DOMAIN p /\ p.deprecated

\* the accessors of the artifact that belong to a deprecated property
DeprecatedAccessors(art) ==
    {k \in 1..Len(art) :
        /\ art[k].kind \in {"getter", "setter"}
        /\ \E i \in 1..Len(props.prop) :
              /\ IsDeprecated(props.prop[i])
              /\ OwnerMark(props.prop[i])
                    = IF target = "rust" THEN ConstKey(art, art[k].key) ELSE art[k].id}

\* each accessor of a deprecated property comes right after a marker
AccessorsMarked(art) ==
    \A k \in DeprecatedAccessors(art) :
       k > 1 /\ art[k - 1].kind \in {"#[deprecated]", "[[deprecated]]", "@Deprecated"}

\* C21: in every target (C++, Java, Rust) a property with deprecated = true
\* is emitted with the same accessors as a non-deprecated one, and each of
\* its emitted accessors (getter, and setter when present) carries a
\* deprecation marker.
C21_DeprecatedAccessorsMarked ==
    Generated =>
       /\ AccessorsMarked(first_result)
       /\ AccessorBlocks(first_result)
             = ExpectedBlocks(IF target = "rust" THEN EmittedAt(scope) ELSE props.prop)

\* the C++ header of a deprecated property holds its getter and setter and
\* no marker
C21_CppHeaderWithoutMarker ==
    /\ Generated /\ target = "cpp"
    /\ Len(props.prop) = 1 /\ IsDeprecated(props.prop[1])
    /\ Len(Only(first_result, {"getter", "setter"})) = 2
    /\ \A k \in 1..Len(first_result) :
          first_result[k].kind \notin {"#[deprecated]", "[[deprecated]]", "@Deprecated"}

\* the Rust module marks every accessor of a deprecated property
C21_RustAccessorsMarked ==
    (Generated /\ target = "rust") => AccessorsMarked(first_result)

\* what the run before this one wrote to the path
WrittenBefore(path) == (CHOOSE f \in fs0.files : f.path = path).content

\* this is the second run
SecondRun == fs0.files # {}

CppScalar ==
    /\ target = "cpp"
    /\ out.kind \in {"present", "set"}
    /\ props.prop[1].type \in {"Boolean", "Integer", "Long"}

\* the key and the type of the only property of the C++ source
CppKey == TheGetter(second_result).key
CppType == TheGetter(second_result).type

\* the canonical form of an accepted raw string: "true" or "false" for a
\* Boolean spelling; for a number its digits without leading zeros, with the
\* '-' kept unless the number is zero
Canonical(s) ==
    LET RECURSIVE Strip(_)
        Strip(d) == IF Len(d) > 1 /\ d[1] = "0" THEN Strip(Tail(d)) ELSE d
        digits == Strip(IF s[1] = "-" THEN Tail(s) ELSE s)
    IN IF props.prop[1].type = "Boolean"
       THEN (IF s[1] \in {"1", "t", "T"} THEN <<"t","r","u","e">>
             ELSE <<"f","a","l","s","e">>)
       ELSE IF s[1] = "-" /\ digits # <<"0">> THEN <<"-">> \o digits
       ELSE digits

\* C23: for the C++ target's Boolean, Integer and Long scalar parsers and
\* formatters, format(parse(s)) is the canonical form of s for every raw
\* string s the parser accepts ("true" / "false" for every accepted Boolean
\* spelling, the decimal representation for integers), and
\* parse(format(v)) = v for every value v.
C23_CppScalarRoundTrip ==
    CppScalar =>
       /\ out.kind = "present" =>
             FormatValue(second_result, CppType, out.value[1])
                = <<Canonical(RawOf(CppKey))>>
       /\ out.kind = "set" =>
             /\ RawOf(CppKey) = FormatValue(second_result, CppType, out.value[1])[1]
             /\ TryParse(second_result, CppType, RawOf(CppKey)) = out.value

\* the raw string "01" of an Integer property has been read as 1, which
\* formats to "1"
C23_Witness ==
    /\ CppScalar
    /\ props.prop[1].type = "Integer"
    /\ out.kind = "present"
    /\ RawOf(CppKey) = <<"0","1">>
    /\ out.value = <<1>>
    /\ FormatValue(second_result, CppType, 1) = <<<<"1">>>>

\* the string begins with "vendor." or with "odm."
InVendorOrOdmNamespace(key) ==
    \/ Len(key) >= 7 /\ SubSeq(key, 1, 7) = <<"v","e","n","d","o","r",".">>
    \/ Len(key) >= 4 /\ SubSeq(key, 1, 4) = <<"o","d","m",".">>

\* the keys the generated C++ source or JNI library passes to the store
StoreKeys ==
    {KeysPassed(second_result, KeyedKinds)[k] :
        k \in 1..Len(KeysPassed(second_result, KeyedKinds))}

\* C24: for every Platform-owned schema accepted by the validator, no key
\* that the generated C++ or JNI accessors pass to the property store begins
\* with "vendor." or "odm.".
C24_PlatformKeysOutsideVendorOdm ==
    (Generated /\ target \in {"cpp", "java"} /\ props.owner = "Platform") =>
        \A key \in StoreKeys : ~InVendorOrOdmNamespace(key)

\* a Platform schema with the prefix "odm" is accepted and its C++ source
\* passes a key that begins with "odm."
C24_PlatformKeyInOdm ==
    /\ Generated /\ target = "cpp" /\ props.owner = "Platform"
    /\ props.prefix = <<"o","d","m">>
    /\ \E key \in StoreKeys : SubSeq(key, 1, 4) = <<"o","d","m",".">>

\* a Platform schema that reaches the checks of its properties, in which a
\* property with a valid name and valid enum values has a vendor. or odm.
\* key and a later property has an invalid name or invalid enum values
NamespaceBeforeBadName ==
    /\ Returned /\ Parsed /\ HeaderOk(In)
    /\ In.owner = "Platform"
    /\ \E i, j \in 1..Len(In.prop) :
          /\ i < j
          /\ InReservedNamespace(In, In.prop[i])
          /\ \A k \in 1..i : NameOk(In.prop[k]) /\ EnumOk(In.prop[k])
          /\ ~(NameOk(In.prop[j]) /\ EnumOk(In.prop[j]))

\* C25: the Platform namespace check runs only after the name and enum
\* checks have passed for every property: a Platform-owned schema in which an
\* earlier-declared property has a vendor. / odm. effective key and a
\* later-declared property has an invalid name or invalid enum values is
\* rejected with the later property's name or enum message, not with the
\* namespace message.
C25_NamespaceCheckedAfterAllNames ==
    NamespaceBeforeBadName =>
       /\ ret = "false"
       /\ err.msg # ErrNamespace(<<>>).msg
       /\ \E j \in 1..Len(In.prop) :
             /\ ~(NameOk(In.prop[j]) /\ EnumOk(In.prop[j]))
             /\ In.prop[j].name \in {err.arg, err.prop}

\* the schema is rejected with the namespace message of the earlier property
C25_NamespaceMessageComesFirst ==
    /\ NamespaceBeforeBadName
    /\ ret = "false"
    /\ err = ErrNamespace(In.prop[1].name)
    /\ ~NameOk(In.prop[2])

\* the text a type-mapping function leaves when its default branch is taken
Unreachable == "__builtin_unreachable()"

\* the type names, parsing expressions, parsers and formatters of an artifact
\* are all defined
MappingsDefined(art) ==
    \A k \in 1..Len(art) :
       /\ art[k].type.tmpl # Unreachable
       /\ (target = "java" /\ art[k].kind = "getter") => art[k].values[1] # Unreachable
       /\ (target = "rust" /\ art[k].kind \in {"getter", "setter"})
             => art[k].call # Unreachable

\* C26: for every schema accepted by the validator and every property type
\* of the closed set (Boolean, Integer, UInt, Long, ULong, Double, String,
\* Enum and their List variants) each generator's type-mapping function
\* returns a defined type name or expression; the default branch marked
\* __builtin_unreachable() is never reached.
C26_TypeMappingsTotal ==
    Generated => (MappingsDefined(first_result) /\ MappingsDefined(second_result))

\* the C++ header of an accepted schema with a UInt property: the getter's
\* type comes from the default branch
C26_CppUIntTakesDefaultBranch ==
    /\ Generated /\ target = "cpp" /\ pc = "done" /\ ret = "true"
    /\ Len(props.prop) = 1 /\ props.prop[1].type = "UInt"
    /\ TheGetter(first_result).type.tmpl = Unreachable

\* the Rust mappings are defined for every type of the pool
C26_RustMappingsTotal ==
    (Generated /\ target = "rust") => MappingsDefined(first_result)

\* the Indent and Dedent calls of the writers of the run's generators
WriterCalls ==
    CASE target = "cpp" ->
            {GenerateHeaderIndents(props), GenerateSourceIndents(props)}
      [] target = "java" ->
            {GenerateJavaClassIndents(props), GenerateJniLibraryIndents(props)}
      [] target = "rust" -> {GenerateRustSourceIndents(props, scope)}

\* the highest level the writer is at during the calls
Deepest(calls) ==
    CHOOSE d \in 0..Len(calls) :
       /\ \E n \in 0..Len(calls) : LevelAfter(calls, n) = d
       /\ \A n \in 0..Len(calls) : LevelAfter(calls, n) <= d

\* C27: for every schema (any number of properties, any mix of types, access
\* modes, legacy names and scopes), throughout each generator run the
\* CodeWriter indentation level never goes below zero (Dedent is never called
\* at level 0) and is exactly zero when Code() is taken at the end, on every
\* control path, including the paths that skip a property or skip its setter.
C27_IndentationBalanced ==
    Generated =>
       \A calls \in WriterCalls :
          /\ \A n \in 0..Len(calls) : LevelAfter(calls, n) >= 0
          /\ LevelAfter(calls, Len(calls)) = 0

\* a Rust run of a schema with a property above the requested scope, which
\* is skipped as a whole, and a Readonly enum property, whose setter is
\* skipped: the writer went three levels deep
C27_Witness ==
    /\ Generated /\ target = "rust"
    /\ \E i \in 1..Len(props.prop) :
          ScopeValue(props.prop[i].scope) > ScopeValue(scope)
    /\ \E i \in 1..Len(props.prop) :
          /\ ScopeValue(props.prop[i].scope) <= ScopeValue(scope)
          /\ props.prop[i].access = "Readonly"
          /\ IsEnumType(props.prop[i].type)
    /\ Deepest(GenerateRustSourceIndents(props, scope)) = 3

\* a getter of the Rust module has been called
RustGetterCalled == target = "rust" /\ out.kind # "none"

\* the primary key holds a string that parses whatever the parser's code:
\* any string for String, "1" for the numbers and Boolean
PrimaryParsable ==
    /\ Primary \notin broken /\ IsSet(Primary)
    /\ \/ props.prop[1].type = "String"
       \/ props.prop[1].type \in {"Integer", "Long", "Boolean"}
             /\ RawOf(Primary) = <<"1">>

\* the value of that string
PrimaryValue ==
    CASE props.prop[1].type = "String" -> RawOf(Primary)
      [] props.prop[1].type = "Boolean" -> TRUE
      [] OTHER -> 1

\* C28: in the generated Rust getter of a property with a legacy_prop_name
\* the legacy key is never read when the primary attempt succeeds: if the
\* primary key is unset the getter returns Ok(None), and if it holds a
\* parsable value the getter returns that value, in both cases without
\* consulting the legacy key; for a property without legacy_prop_name only
\* the primary key is ever read.
C28_LegacyNotReadAfterPrimarySuccess ==
    RustGetterCalled =>
       /\ (Legacy # <<>> /\ Primary \notin broken /\ ~IsSet(Primary))
             => (out.kind = "absent" /\ reads = <<Primary>>)
       /\ (Legacy # <<>> /\ PrimaryParsable)
             => /\ out.kind = "present" /\ out.value = <<PrimaryValue>>
                /\ reads = <<Primary>>
       /\ Legacy = <<>> => reads = <<Primary>>

\* the primary key holds 1, the legacy key holds another value: the getter
\* returned 1 and read the primary key alone
C28_Witness ==
    /\ LegacyGetterCalled
    /\ PrimaryParsable /\ props.prop[1].type = "Integer"
    /\ IsSet(Legacy) /\ Legacy \notin broken /\ RawOf(Legacy) # RawOf(Primary)
    /\ out.kind = "present" /\ out.value = <<1>>
    /\ reads = <<Primary>>

\* the primary key is unset, the legacy key holds a value: the getter
\* returned Ok(None)
C28_UnsetWitness ==
    /\ LegacyGetterCalled
    /\ Primary \notin broken /\ ~IsSet(Primary)
    /\ IsSet(Legacy) /\ Legacy \notin broken
    /\ out.kind = "absent"

\* the setter of a C++ list property of Boolean, Integer or Long elements, or
\* of non-empty comma-free strings, has been called
CppListSet ==
    /\ target = "cpp" /\ out.kind = "set"
    /\ props.prop[1].type \in {"BooleanList", "IntegerList", "LongList", "StringList"}
    /\ props.prop[1].type = "StringList" =>
          \A i \in 1..Len(out.value[1]) :
             /\ out.value[1][i] # <<>>
             /\ \A k \in 1..Len(out.value[1][i]) : out.value[1][i][k] # ","

\* the type of the elements of the list the only property holds
CppElemType ==
    Txt(CASE props.prop[1].type = "BooleanList" -> "bool"
          [] props.prop[1].type = "IntegerList" -> "std::int32_t"
          [] props.prop[1].type = "LongList" -> "std::int64_t"
          [] OTHER -> "std::string",
        CppType.arg)

\* the formatted elements joined by single ',' separators
RECURSIVE JoinFormatted(_)
JoinFormatted(v) ==
    IF v = <<>> THEN <<>>
    ELSE IF Len(v) = 1 THEN FormatValue(second_result, CppElemType, v[1])[1]
    ELSE JoinFormatted(SubSeq(v, 1, Len(v) - 1)) \o <<",">>
            \o FormatValue(second_result, CppElemType, v[Len(v)])[1]

\* C29: for the C++ target, list values round-trip through the generated
\* formatter and parser: for every list v of Boolean, Integer or Long
\* elements (and every list of non-empty comma-free strings), FormatValue(v)
\* is the elements' formatted values joined by single ',' separators with no
\* leading or trailing separator, and DoParseList(FormatValue(v)) returns v
\* for every non-empty v.
C29_CppListRoundTrip ==
    CppListSet =>
       /\ RawOf(CppKey) = JoinFormatted(out.value[1])
       /\ out.value[1] # <<>> =>
             TryParse(second_result, CppType, RawOf(CppKey)) = out.value

\* the setter of an Integer list called with [7, 12] has stored ",712",
\* which the parser rejects
C29_LeadingSeparatorOnly ==
    /\ CppListSet
    /\ props.prop[1].type = "IntegerList"
    /\ out.value = << <<7, 12>> >>
    /\ RawOf(CppKey) = <<",","7","1","2">>
    /\ TryParse(second_result, CppType, RawOf(CppKey)) = <<>>

\* the empty list is formatted as the empty string
C29_EmptyListFormatsEmpty ==
    (CppListSet /\ out.value[1] = <<>>) => RawOf(CppKey) = <<>>

\* the names the items of the given kind declare, in the order of the artifact
DeclaredNames(art, kind) ==
    LET its == Only(art, {kind})
    IN [k \in 1..Len(its) |-> its[k].id]

PairwiseDistinct(names) ==
    \A i, j \in 1..Len(names) : i # j => names[i] # names[j]

\* in the artifact no two properties have the same getter name and no two
\* the same setter name (the native methods and JNI functions of the Java
\* target included)
AccessorNamesDistinct(art) ==
    \A kind \in {"getter", "setter", "native_get", "native_set", "_get", "_set"} :
       PairwiseDistinct(DeclaredNames(art, kind))

\* no getter of the artifact has the name of a setter; a property's own
\* setter set_<id> is longer than its getter <id>, so equal names belong to
\* two properties
GetterNeverNamedLikeSetter(art) ==
    \A i \in 1..Len(DeclaredNames(art, "getter")),
       j \in 1..Len(DeclaredNames(art, "setter")) :
          DeclaredNames(art, "getter")[i] # DeclaredNames(art, "setter")[j]

\* C30: for every schema accepted by the validator, within each generated
\* artifact the emitted accessor names are pairwise distinct across
\* properties: no two properties produce the same getter name, no two
\* produce the same setter name, and (Rust target, where setters are named
\* set_<id>) no property's getter name equals another property's setter name.
C30_AccessorNamesDistinct ==
    Generated =>
       /\ AccessorNamesDistinct(first_result)
       /\ AccessorNamesDistinct(second_result)
       /\ target = "rust" => GetterNeverNamedLikeSetter(first_result)

\* the Rust module of the accepted schema with the api_names x (ReadWrite)
\* and set_x declares the function set_x twice: the setter of x and the
\* getter of set_x
C30_RustGetterNamedLikeSetter ==
    /\ Generated /\ target = "rust" /\ pc = "done" /\ ret = "true"
    /\ Len(props.prop) = 2
    /\ props.prop[1].api_name = <<"x">>
    /\ props.prop[2].api_name = <<"s","e","t","_","x">>
    /\ DeclaredNames(first_result, "setter") = << <<"s","e","t","_","x">> >>
    /\ DeclaredNames(first_result, "getter") = << <<"x">>, <<"s","e","t","_","x">> >>

\* C++ and Java, whose schemas ValidateProps checks for duplicates of the
\* flattened name: the getter names are pairwise distinct and so are the
\* setter names, in every artifact
C30_CppJavaNamesDistinct ==
    (Generated /\ target # "rust") =>
       (AccessorNamesDistinct(first_result) /\ AccessorNamesDistinct(second_result))

====
